---- MODULE Spec2Model ----
(***************************************************************************)
(* A model of the Ads Placement Excluder pipeline.                         *)
(*                                                                         *)
(* The Excluder stage (src/src/google_ads_excluder/main.py) reads the      *)
(* exclusion filters from the config sheet, runs the reconciliation query  *)
(* over the report, the channel metadata and the exclusion history,        *)
(* submits the resulting channels to the ad platform and appends them to   *)
(* the history.  The filter compilers of the Excluder and of the account   *)
(* stage (src/src/google_ads_accounts/main.py) are modelled as operators   *)
(* over rows of cells.                                                     *)
(*                                                                         *)
(* The stages upstream of it are modelled from the HTTP request on: the    *)
(* account stage (src/src/google_ads_accounts/main.py) reads the accounts  *)
(* and publishes one message per enabled account, the report stage         *)
(* (src/src/google_ads_report/main.py) replaces the report of a customer,  *)
(* the enrichment stage (src/src/youtube_channel/main.py) looks up the     *)
(* channels of the report, chunk by chunk, and writes their metadata.      *)
(* split_list_to_chunks, get_query_dates and get_report_query are also     *)
(* applied on their own to every input within the bounds.  SpecPipeline    *)
(* runs the four stages from end to end, every stage from the delivery of  *)
(* a message of its topic on, with the Excluder in either mode of          *)
(* APE_EXCLUSION_VALIDATE_ONLY.                                            *)
(*                                                                         *)
(* Strings built by the code are modelled as sequences of string pieces    *)
(* (cells and the literal separators), in the order the code concatenates  *)
(* them.                                                                   *)
(***************************************************************************)
EXTENDS Integers, Sequences, FiniteSets, TLC

VARIABLES
    report,          \* table google_ads_report: customer_id -> channel ids
    youtube,         \* table youtube_channel: rows (channel_id, view_count)
    exclusion,       \* table google_ads_exclusion: the blobs written to GCS
    gads,            \* the mutate_shared_criteria requests received
    published,       \* the pub/sub messages published, in order
    delivered,       \* the deliveries to the upstream stages, with their outcome
    accounts,        \* the invocation of the account stage
    enrich,          \* the invocation of the enrichment stage
    inv,             \* the Excluder invocations
    uuids,           \* how many uuid4 values have been drawn
    VALIDATE_ONLY,   \* the Excluder's setting APE_EXCLUSION_VALIDATE_ONLY
    config_filters,  \* filter compilers: the rows handed to the compilers
    sql_string,      \* filter compilers: youtube_filters_to_sql_string's result
    gaql_string,     \* filter compilers: gads_filters_to_gaql_string's result
    lst,             \* chunking: the list handed to split_list_to_chunks
    max_size_of_chunk, \* chunking: the maximum size of a chunk
    chunks,          \* chunking: split_list_to_chunks's outcome
    today,           \* report query: the date datetime.today() returns
    lookback_days,   \* report query: the number of days to look back
    gads_filters,    \* report query: the compiled filters of the message
    query_dates,     \* report query: get_query_dates's outcome
    query            \* report query: get_report_query's outcome

pipeline_vars == <<report, youtube, exclusion, gads, published, inv, uuids>>
upstream_vars == <<delivered, accounts, enrich>>
compiler_vars == <<config_filters, sql_string, gaql_string>>
chunk_vars == <<lst, max_size_of_chunk, chunks>>
query_vars == <<today, lookback_days, gads_filters, query_dates, query>>
vars == <<report, youtube, exclusion, gads, published, inv, uuids,
          VALIDATE_ONLY, delivered, accounts, enrich,
          config_filters, sql_string, gaql_string,
          lst, max_size_of_chunk, chunks,
          today, lookback_days, gads_filters, query_dates, query>>

\* What the steps of the Excluder, of the filter compilers, of the chunking
\* and of the report query leave alone; no step changes the setting.
outside_pipeline ==
    <<VALIDATE_ONLY, upstream_vars, compiler_vars, chunk_vars, query_vars>>
outside_compiler ==
    <<VALIDATE_ONLY, pipeline_vars, upstream_vars, chunk_vars, query_vars>>
outside_chunking ==
    <<VALIDATE_ONLY, pipeline_vars, upstream_vars, compiler_vars, query_vars>>
outside_query ==
    <<VALIDATE_ONLY, pipeline_vars, upstream_vars, compiler_vars, chunk_vars>>
outside_upstream == <<VALIDATE_ONLY, compiler_vars, chunk_vars, query_vars>>

(***************************************************************************)
(* Bounds                                                                  *)
(***************************************************************************)
\* Excluder invocations (deliveries of Excluder messages) in one behaviour.
MaxInv == 2
\* Elements of a list handed to split_list_to_chunks.
MaxListLen == 6
\* The maximum size of a chunk handed to split_list_to_chunks.
MaxChunkSize == 4
\* Rows of the range google_ads_customer_ids.
MaxAccounts == 2
\* Channels in the report of the customer that is enriched.
MaxChannels == 101
\* The largest lookback_days of a report.
MaxLookback == 90
\* The years, from 2022 on, that `today` is drawn from.
MaxYears == 3
\* Rows of a filter range handed to a filter compiler.
MaxRows == 2
\* Cells in one row of a filter range.
MaxCells == 4

Inv == 1..MaxInv
Customers == {"1", "2"}
Channels == {"UCa", "UCb"}
ViewCounts == {2}
\* The cells a filter row is drawn from in the compiler specification.
Cells == {"clicks", "<"}

\* Python's None, and a value wrapped so that it can be told from None.
None == <<>>
Some(x) == <<x>>
\* SQL's NULL as the value of a selected column.
NULL == "NULL"
\* A compiler result that has not been computed yet.
Unset == <<"Unset">>
\* The result of a compiler call that raised IndexError.
IndexError == <<"IndexError">>

(***************************************************************************)
(* Filter compilers                                                        *)
(***************************************************************************)
\* A bug: the conditions are joined last first.
RECURSIVE Join_Reversed(_)
Join_Reversed(conditions) ==
    IF conditions = <<>> THEN <<>>
    ELSE IF Len(conditions) = 1 THEN Head(conditions)
    ELSE Join_Reversed(Tail(conditions)) \o <<" AND ">> \o Head(conditions)

\* ' AND '.join(conditions)
RECURSIVE Join(_)
Join(conditions) ==
    IF conditions = <<>> THEN <<>>
    ELSE IF Len(conditions) = 1 THEN Head(conditions)
    ELSE Head(conditions) \o <<" AND ">> \o Join(Tail(conditions))

\* f'{row[0]} {row[1]} {row[2]}'
SqlCondition(row) == <<row[1], " ", row[2], " ", row[3]>>

\* f'metrics.{row[0]} {row[1]} {row[2]}'
GaqlCondition(row) == <<"metrics.", row[1], " ", row[2], " ", row[3]>>

\* A bug: the length test accepts every row of at least 3 cells.
RECURSIVE SqlConditions_AtLeast3(_)
SqlConditions_AtLeast3(rows) ==
    IF rows = <<>> THEN <<>>
    ELSE IF Len(Head(rows)) >= 3
         THEN <<SqlCondition(Head(rows))>> \o SqlConditions_AtLeast3(Tail(rows))
         ELSE SqlConditions_AtLeast3(Tail(rows))

\* for row in config_filters: if len(row) == 3: conditions.append(...)
RECURSIVE SqlConditions(_)
SqlConditions(rows) ==
    IF rows = <<>> THEN <<>>
    ELSE IF Len(Head(rows)) = 3
         THEN <<SqlCondition(Head(rows))>> \o SqlConditions(Tail(rows))
         ELSE SqlConditions(Tail(rows))

youtube_filters_to_sql_string(rows) == Join(SqlConditions(rows))

\* for row in config_filters: conditions.append(f'metrics.{row[0]} ...'):
\* no length test; row[2] of a row with fewer than 3 cells raises IndexError,
\* the cells after the third of a longer row are ignored.
RECURSIVE GaqlConditions(_)
GaqlConditions(rows) ==
    IF rows = <<>> THEN <<>>
    ELSE <<GaqlCondition(Head(rows))>> \o GaqlConditions(Tail(rows))

gads_filters_to_gaql_string(rows) ==
    IF \E k \in 1..Len(rows) : Len(rows[k]) < 3 THEN IndexError
    ELSE Join(GaqlConditions(rows))

\* The elements of a sequence.
Range(seq) == {seq[k] : k \in DOMAIN seq}
\* Sequences of length at most n over S.
SeqUpTo(S, n) == UNION {[1..k -> S] : k \in 0..n}

Rows == SeqUpTo(Cells, MaxCells)
RowLists == SeqUpTo(Rows, MaxRows)

CompilerIdle ==
    /\ config_filters = <<>>
    /\ sql_string = Unset
    /\ gaql_string = Unset

CompilerInit ==
    /\ config_filters \in RowLists
    /\ sql_string = Unset
    /\ gaql_string = Unset

CompileSql ==
    /\ sql_string = Unset
    /\ sql_string' = youtube_filters_to_sql_string(config_filters)
    /\ UNCHANGED <<config_filters, gaql_string>>
    /\ UNCHANGED outside_compiler

CompileGaql ==
    /\ gaql_string = Unset
    /\ gaql_string' = gads_filters_to_gaql_string(config_filters)
    /\ UNCHANGED <<config_filters, sql_string>>
    /\ UNCHANGED outside_compiler

(***************************************************************************)
(* Enrichment: split_list_to_chunks                                        *)
(***************************************************************************)
\* A bug: the number of chunks is rounded down.
num_of_chunks_floor(len, max_size) == len \div max_size

\* A bug: one chunk more than the quotient, also when there is no remainder.
num_of_chunks_plus_one(len, max_size) == len \div max_size + 1

\* num_of_chunks = math.ceil(len(lst) / max_size_of_chunk)
num_of_chunks(len, max_size) == (len + max_size - 1) \div max_size

\* np.array_split(ary, sections) for an integer number of sections: the first
\* len % sections chunks hold len // sections + 1 elements, the others
\* len // sections; div_point(k) is where chunk k + 1 starts.
array_split(ary, sections) ==
    LET Neach == Len(ary) \div sections
        extras == Len(ary) % sections
        div_point(k) == k * Neach + (IF k < extras THEN k ELSE extras)
    IN  [k \in 1..sections |-> SubSeq(ary, div_point(k - 1) + 1, div_point(k))]

\* The outcome of a call: it returned a value or raised an error.
NotCalled == [status |-> "not called", value |-> <<>>]
Returned(value) == [status |-> "returned", value |-> value]
Raised(error) == [status |-> error, value |-> <<>>]

\* np.array_split raises ValueError('number sections must be larger than 0.')
\* when it is asked for no section, that is for the empty list.
split_list_to_chunks(list, max_size) ==
    LET sections == num_of_chunks(Len(list), max_size)
    IN  IF sections <= 0 THEN Raised("ValueError")
        ELSE Returned(array_split(list, sections))

Lists == SeqUpTo(Channels, MaxListLen)
ChunkSizes == 1..MaxChunkSize

ChunkingIdle ==
    /\ lst = <<>>
    /\ max_size_of_chunk = 1
    /\ chunks = NotCalled

ChunkingInit ==
    /\ lst \in Lists
    /\ max_size_of_chunk \in ChunkSizes
    /\ chunks = NotCalled

SplitListToChunks ==
    /\ chunks = NotCalled
    /\ chunks' = split_list_to_chunks(lst, max_size_of_chunk)
    /\ UNCHANGED <<lst, max_size_of_chunk>>
    /\ UNCHANGED outside_chunking

(***************************************************************************)
(* Report: get_query_dates and get_report_query                            *)
(***************************************************************************)
Date(y, m, d) == [year |-> y, month |-> m, day |-> d]

\* datetime's calendar: _DAYS_IN_MONTH, _DAYS_BEFORE_MONTH, _is_leap,
\* _days_before_year, _days_in_month, _days_before_month, _ymd2ord, _ord2ymd.
DAYS_IN_MONTH == <<31, 28, 31, 30, 31, 30, 31, 31, 30, 31, 30, 31>>
DAYS_BEFORE_MONTH == <<0, 31, 59, 90, 120, 151, 181, 212, 243, 273, 304, 334>>
is_leap(year) == year % 4 = 0 /\ (year % 100 # 0 \/ year % 400 = 0)
days_before_year(year) ==
    LET y == year - 1
    IN  y * 365 + y \div 4 - y \div 100 + y \div 400
days_in_month(year, month) ==
    IF month = 2 /\ is_leap(year) THEN 29 ELSE DAYS_IN_MONTH[month]
days_before_month(year, month) ==
    DAYS_BEFORE_MONTH[month] + (IF month > 2 /\ is_leap(year) THEN 1 ELSE 0)
ymd2ord(date) ==
    days_before_year(date.year) + days_before_month(date.year, date.month)
    + date.day
ord2ymd(ordinal) ==
    LET n0 == ordinal - 1
        n400 == n0 \div 146097
        r400 == n0 % 146097
        n100 == r400 \div 36524
        r100 == r400 % 36524
        n4 == r100 \div 1461
        r4 == r100 % 1461
        n1 == r4 \div 365
        n == r4 % 365
        year == n400 * 400 + 1 + n100 * 100 + n4 * 4 + n1
        leapyear == n1 = 3 /\ (n4 # 24 \/ n100 = 3)
        month0 == (n + 50) \div 32
        preceding0 == DAYS_BEFORE_MONTH[month0]
                      + (IF month0 > 2 /\ leapyear THEN 1 ELSE 0)
        month == IF preceding0 > n THEN month0 - 1 ELSE month0
        preceding ==
            IF preceding0 > n
            THEN preceding0 - (DAYS_IN_MONTH[month]
                               + (IF month = 2 /\ leapyear THEN 1 ELSE 0))
            ELSE preceding0
    IN  IF n1 = 4 \/ n100 = 4 THEN Date(year - 1, 12, 31)
        ELSE Date(year, month, n - preceding + 1)

\* date.fromordinal: _ord2ymd of every ordinal that a date within the bounds
\* and a lookback within the bounds give, computed once.
Ordinals ==
    LET first == CHOOSE y \in 2022..(2021 + MaxYears) :
                     \A z \in 2022..(2021 + MaxYears) : y <= z
        last == CHOOSE y \in 2022..(2021 + MaxYears) :
                     \A z \in 2022..(2021 + MaxYears) : z <= y
    IN  (ymd2ord(Date(first, 1, 1)) - MaxLookback - 1)
        ..ymd2ord(Date(last, 12, 31))
date_fromordinal == [ordinal \in Ordinals |-> ord2ymd(ordinal)]

\* The decimal digits of n, padded with zeros to `width` characters.
DigitChars == <<"0", "1", "2", "3", "4", "5", "6", "7", "8", "9">>
RECURSIVE Digits(_, _)
Digits(n, width) ==
    IF width = 0 THEN <<>>
    ELSE Digits(n \div 10, width - 1) \o <<DigitChars[(n % 10) + 1]>>

\* int(chars) for a string of decimal digits; anything else raises ValueError.
IsDigit(ch) == \E k \in 1..10 : DigitChars[k] = ch
DigitValue(ch) == (CHOOSE k \in 1..10 : DigitChars[k] = ch) - 1
IsInteger(chars) == chars # <<>> /\ \A k \in DOMAIN chars : IsDigit(chars[k])
RECURSIVE Number(_)
Number(chars) ==
    IF chars = <<>> THEN 0
    ELSE 10 * Number(SubSeq(chars, 1, Len(chars) - 1))
         + DigitValue(chars[Len(chars)])

\* date.strftime('%Y-%m-%d'), as the sequence of its characters.
strftime(date) ==
    Digits(date.year, 4) \o <<"-">> \o Digits(date.month, 2) \o <<"-">>
    \o Digits(date.day, 2)

\* A bug: the lookback window excludes today, so it starts a day late.
timedelta_sub_one_less(date, days) == ord2ymd(ymd2ord(date) - (days - 1))

\* today - timedelta(days=lookback_days): the date of the ordinal; a result
\* before 0001-01-01 raises OverflowError.
timedelta_sub(date, days) == date_fromordinal[ymd2ord(date) - days]
timedelta_sub_raises(date, days) == ymd2ord(date) - days <= 0

get_query_dates(days, date) ==
    IF timedelta_sub_raises(date, days) THEN Raised("OverflowError")
    ELSE Returned(<<strftime(timedelta_sub(date, days)), strftime(date)>>)

\* where_query = ''; if gads_filters is not None:
\*     where_query = f'AND {gads_filters}'
where_query(filters) ==
    IF filters # None THEN <<"AND", " ">> \o filters[1] ELSE <<>>

\* The pieces of the query before the date window.
SelectFromWhere ==
    <<"\n", "SELECT", " ", "customer.id, ...", "\n",
      "FROM", " ", "group_placement_view", "\n",
      "WHERE", " ", "group_placement_view.placement_type = \"YOUTUBE_CHANNEL\"",
      "\n", "AND", " ", "campaign.advertising_channel_type = \"VIDEO\"", "\n">>

\* AND segments.date BETWEEN "{date_from}" AND "{date_to}"
DateWindow(date_from, date_to) ==
    <<"AND", " ", "segments.date", " ", "BETWEEN", " ", "\"">> \o date_from
    \o <<"\"", " ", "AND", " ", "\"">> \o date_to \o <<"\"">>

\* get_report_query: the f-string, as the sequence of its pieces: keywords,
\* white space and the interpolated values.
get_report_query(days, filters, date) ==
    LET dates == get_query_dates(days, date)
    IN  IF dates.status # "returned" THEN Raised(dates.status)
        ELSE Returned(SelectFromWhere
                      \o DateWindow(dates.value[1], dates.value[2])
                      \o <<"\n">> \o where_query(filters) \o <<"\n">>)

\* query.strip(): the pieces without the white space at both ends.
Whitespace == {" ", "\n"}
RECURSIVE RStrip(_)
RStrip(pieces) ==
    IF pieces # <<>> /\ pieces[Len(pieces)] \in Whitespace
    THEN RStrip(SubSeq(pieces, 1, Len(pieces) - 1))
    ELSE pieces
RECURSIVE LStrip(_)
LStrip(pieces) ==
    IF pieces # <<>> /\ Head(pieces) \in Whitespace THEN LStrip(Tail(pieces))
    ELSE pieces
Strip(pieces) == LStrip(RStrip(pieces))
\* query.strip()[-3:] == 'AND'
EndsWithAnd(pieces) ==
    LET stripped == Strip(pieces)
    IN  stripped # <<>> /\ stripped[Len(stripped)] = "AND"

Years == 2022..(2021 + MaxYears)
Dates ==
    UNION {UNION {{Date(y, m, d) : d \in 1..days_in_month(y, m)} :
                     m \in 1..12} : y \in Years}
Lookbacks == 0..MaxLookback
\* The value of 'gads_filters' in a message: the compilation of the filter rows.
ThreeCellRows == {row \in Rows : Len(row) = 3}
CompiledFilters ==
    {Some(gads_filters_to_gaql_string(rows)) :
        rows \in SeqUpTo(ThreeCellRows, MaxRows)}

QueryIdle ==
    /\ today = Date(2022, 7, 1)
    /\ lookback_days = 0
    /\ gads_filters = None
    /\ query_dates = NotCalled
    /\ query = NotCalled

DatesInit ==
    /\ today \in Dates
    /\ lookback_days \in Lookbacks
    /\ gads_filters = None
    /\ query_dates = NotCalled
    /\ query = NotCalled

QueryInit ==
    /\ today \in {Date(2022, 7, 1), Date(2024, 3, 1)}
    /\ lookback_days \in Lookbacks
    /\ gads_filters \in {None} \cup CompiledFilters
    /\ query_dates = NotCalled
    /\ query = NotCalled

GetQueryDates ==
    /\ query_dates = NotCalled
    /\ query_dates' = get_query_dates(lookback_days, today)
    /\ UNCHANGED <<today, lookback_days, gads_filters, query>>
    /\ UNCHANGED outside_query

GetReportQuery ==
    /\ query = NotCalled
    /\ query' = get_report_query(lookback_days, gads_filters, today)
    /\ UNCHANGED <<today, lookback_days, gads_filters, query_dates>>
    /\ UNCHANGED outside_query

(***************************************************************************)
(* Messages: JSON values, the schemas of the stages, the topics            *)
(***************************************************************************)
\* A JSON value with its type, as json.loads returns it and jsonschema reads it.
Str(x) == <<"string", x>>
Num(n) == <<"number", n>>
Null == <<"null">>
\* dict.get(key, default)
Get(dict, key, default) == IF key \in DOMAIN dict THEN dict[key] ELSE default

\* A bug: only the presence of the required keys is validated.
IsValid_RequiredKeysOnly(instance, schema) ==
    schema.required \subseteq DOMAIN instance

\* jsonschema.validate for the schemas of this program: the required keys are
\* there, and every key that has a declared type holds a value of that type.
IsValid(instance, schema) ==
    /\ schema.required \subseteq DOMAIN instance
    /\ \A key \in DOMAIN instance \cap DOMAIN schema.properties :
           instance[key][1] = schema.properties[key]

\* google_ads_accounts: request_schema
accounts_request_schema ==
    [properties |-> [sheet_id |-> "string"], required |-> {"sheet_id"}]
\* google_ads_report: message_schema
report_message_schema ==
    [properties |-> [sheet_id |-> "string", customer_id |-> "string",
                     lookback_days |-> "number", gads_filters |-> "string"],
     required |-> {"customer_id", "lookback_days", "gads_filters"}]
\* youtube_channel: message_schema
youtube_message_schema ==
    [properties |-> [sheet_id |-> "string", customer_id |-> "string"],
     required |-> {"sheet_id", "customer_id"}]
\* google_ads_excluder: message_schema
excluder_message_schema ==
    [properties |-> [sheet_id |-> "string", customer_id |-> "string"],
     required |-> {"sheet_id", "customer_id"}]

\* The id of the config sheet.
SheetId == "sheet"
\* A bug: the message is published twice.
Publish_Twice(topic, message) ==
    Append(Append(published, [topic |-> topic, message |-> message]),
           [topic |-> topic, message |-> message])

\* publisher.publish(topic_path, data)
Publish(topic, message) == Append(published, [topic |-> topic, message |-> message])
RECURSIVE PublishAll(_, _, _)
PublishAll(log, topic, messages) ==
    IF messages = <<>> THEN log
    ELSE PublishAll(Append(log, [topic |-> topic, message |-> Head(messages)]),
                    topic, Tail(messages))
\* The message a well-formed upstream stage sends to the Excluder.
ExcluderMessage(c) == [customer_id |-> Str(c), sheet_id |-> Str(SheetId)]
\* The messages published to a topic, with their places in the log.
PublishedTo(topic) == {k \in DOMAIN published : published[k].topic = topic}
\* Message k has been delivered to its stage.
Delivered(k) == \E d \in delivered : d[1] = k

(***************************************************************************)
(* AccountConfig: google_ads_accounts                                      *)
(***************************************************************************)
\* A bug: every row is taken for an enabled account.
is_enabled_always(is_enabled) == TRUE

\* if is_enabled == 'Enabled'
is_enabled_test(is_enabled) == is_enabled = "Enabled"

\* for customer_id, is_enabled in customer_ids: the loop of
\* get_config_from_sheet over the rows still to read.  Unpacking a row that
\* has not exactly 2 cells raises ValueError, and so does int(lookback_days)
\* of a cell that is no integer, when the first enabled row is reached.
RECURSIVE account_configs_loop(_, _, _, _)
account_configs_loop(customer_ids, gads_filters_str, lookback, account_configs) ==
    IF customer_ids = <<>> THEN Returned(account_configs)
    ELSE LET row == Head(customer_ids)
         IN  IF Len(row) # 2 THEN Raised("ValueError")
             ELSE IF is_enabled_test(row[2])
             THEN IF ~IsInteger(lookback) THEN Raised("ValueError")
                  ELSE account_configs_loop(
                           Tail(customer_ids), gads_filters_str, lookback,
                           Append(account_configs,
                                  [customer_id |-> Str(row[1]),
                                   lookback_days |-> Num(Number(lookback)),
                                   gads_filters |-> Str(gads_filters_str)]))
             ELSE account_configs_loop(Tail(customer_ids), gads_filters_str,
                                       lookback, account_configs)

\* get_config_from_sheet, given the three ranges read from the sheet.
get_config_from_sheet(customer_ids, filter_rows, lookback) ==
    LET gads_filters_str == gads_filters_to_gaql_string(filter_rows)
    IN  IF gads_filters_str = IndexError THEN Raised("IndexError")
        ELSE account_configs_loop(customer_ids, gads_filters_str, lookback, <<>>)

\* The rows of the range google_ads_customer_ids: an account with its status,
\* or a row whose status cell is empty, which the sheet returns as one cell.
AccountRows ==
    {<<c, status>> : c \in Customers, status \in {"Enabled", "Disabled"}}
    \cup {<<"1">>}
AccountSheets == SeqUpTo(AccountRows, MaxAccounts)
\* The rows of the range google_ads_filters.
FilterSheets == {<<>>, << <<"clicks", "<", "1">> >>, << <<"clicks", "<">> >>}
\* The cell of the range google_ads_lookback_days.
LookbackCells == {<<"3", "0">>, <<"d", "a", "y", "s">>}
\* The JSON of the HTTP request.
Requests == {[sheet_id |-> Str(SheetId)], <<>>}

IdleAccounts ==
    [status |-> "idle", response |-> 0, error |-> "", customer_ids |-> <<>>,
     filter_rows |-> <<>>, lookback |-> <<>>]

\* main: the HTTP request is validated (400 when it is not valid), run reads
\* the config and publishes one message per account config.
AccountsMain(request_json, customer_ids, filter_rows, lookback) ==
    /\ accounts.status = "idle"
    /\ IF ~IsValid(request_json, accounts_request_schema)
       THEN /\ accounts' = [accounts EXCEPT !.status = "rejected",
                                            !.response = 400,
                                            !.error = "ValidationError"]
            /\ UNCHANGED published
       ELSE LET account_configs ==
                    get_config_from_sheet(customer_ids, filter_rows, lookback)
                read == [accounts EXCEPT !.customer_ids = customer_ids,
                                         !.filter_rows = filter_rows,
                                         !.lookback = lookback]
            IN  IF account_configs.status # "returned"
                THEN /\ accounts' = [read EXCEPT !.status = "failed",
                                                 !.response = 500,
                                                 !.error = account_configs.status]
                     /\ UNCHANGED published
                ELSE /\ accounts' = [read EXCEPT !.status = "done",
                                                 !.response = 200]
                     /\ published' = PublishAll(published, "report",
                                                account_configs.value)
    /\ UNCHANGED <<report, youtube, exclusion, gads, inv, uuids, delivered,
                   enrich>>
    /\ UNCHANGED outside_upstream

(***************************************************************************)
(* Excluder: configuration                                                 *)
(***************************************************************************)
FilterGt == <<"view_count", ">", "1">>
FilterLt == <<"view_count", "<", "1">>
Malformed == <<"view_count", ">">>
\* The contents of the sheet range yt_exclusion_filters an invocation may read.
SheetConfigs == {<<Malformed>>, <<FilterGt>>, <<FilterLt, Malformed>>}

\* A bug: the test for empty filters is missing.
get_config_filters_never_raises(rows) == FALSE

\* filters = youtube_filters_to_sql_string(result);
\* if len(filters) == 0: raise BadRequest("Filters are not set")
get_config_filters_raises(rows) == Len(youtube_filters_to_sql_string(rows)) = 0
get_config_filters(rows) == youtube_filters_to_sql_string(rows)

(***************************************************************************)
(* Excluder: the reconciliation query, by the semantics of its SQL         *)
(***************************************************************************)
\* The rows of google_ads_report.
AdsRows(ads) ==
    UNION {{[customer_id |-> c, channel_id |-> p] : p \in ads[c]} :
           c \in DOMAIN ads}

\* The rows of google_ads_exclusion: one per channel of every blob.
ExclusionRows(excl) ==
    UNION {{[channel_id |-> p, customer_id |-> excl[n].customer_id] :
                p \in excl[n].channel_ids} : n \in DOMAIN excl}

\* A bug: an inner join, which has no row when nothing matches.
LeftJoin_Inner(rows, channel_id) ==
    {Some(r) : r \in {m \in rows : m.channel_id = channel_id}}

\* LEFT JOIN ... USING(channel_id): the matching rows, or one NULL row.
LeftJoin(rows, channel_id) ==
    LET matching == {r \in rows : r.channel_id = channel_id}
    IN  IF matching = {} THEN {None} ELSE {Some(r) : r \in matching}

\* FROM Ads LEFT JOIN Yt USING(channel_id) LEFT JOIN Excluded USING(channel_id)
Joined(ads, yt, excl) ==
    UNION {{[Ads |-> a, Yt |-> y, Excluded |-> e] :
                y \in LeftJoin(yt, a.channel_id),
                e \in LeftJoin(ExclusionRows(excl), a.channel_id)} :
           a \in AdsRows(ads)}

\* A column of a joined table: NULL (None) when the joined row is the NULL row.
Column(row, name) == IF row = None THEN None ELSE Some(row[1][name])

\* int(customer_id) succeeds.
IsIntegerLiteral(customer_id) == customer_id \in {"1", "2"}
NumberOf(value) == CASE value = "0" -> 0 [] value = "1" -> 1 [] value = "2" -> 2
IntOf(customer_id) == CASE customer_id = "1" -> 1 [] customer_id = "2" -> 2

\* A comparison is true only of a non-NULL column.
Compare(op, a, b) ==
    CASE op = ">" -> a > b
      [] op = "<" -> a < b
      [] op = "=" -> a = b

ConditionHolds(yt_row, field, op, value) ==
    LET v == Column(yt_row, field)
    IN  v # None /\ Compare(op, v[1], NumberOf(value))

\* The compiled filters as the query engine reads them: the conditions are the
\* pieces 1, 3, 5 of every group of six ("field op value AND ").
FiltersHold(filters, yt_row) ==
    \A k \in 0..(((Len(filters) + 1) \div 6) - 1) :
        ConditionHolds(yt_row, filters[6 * k + 1], filters[6 * k + 3],
                       filters[6 * k + 5])

\* A bug: the test that the channel is absent from the history is missing.
Where_NoAntiJoin(j, customer_id, filters) ==
    /\ j.Ads.customer_id = customer_id
    /\ \/ Column(j.Excluded, "customer_id") = Some(IntOf(customer_id))
       \/ Column(j.Excluded, "customer_id") = None
    /\ FiltersHold(filters, j.Yt)

\* WHERE Ads.customer_id = "{customer_id}"
\*   AND Excluded.channel_id IS NULL
\*   AND (Excluded.customer_id = "{customer_id}" OR Excluded.customer_id IS NULL)
\*   AND {filters}
Where(j, customer_id, filters) ==
    /\ j.Ads.customer_id = customer_id
    /\ Column(j.Excluded, "channel_id") = None
    /\ \/ Column(j.Excluded, "customer_id") = Some(IntOf(customer_id))
       \/ Column(j.Excluded, "customer_id") = None
    /\ FiltersHold(filters, j.Yt)

\* SELECT DISTINCT Yt.channel_id
QueryResult(customer_id, filters, ads, yt, excl) ==
    {IF j.Yt = None THEN NULL ELSE j.Yt[1].channel_id :
        j \in {r \in Joined(ads, yt, excl) : Where(r, customer_id, filters)}}

\* A bug: the empty list is returned when the query returns no rows.
get_spam_placements_empty_list(customer_id, filters, ads, yt, excl) ==
    Some(QueryResult(customer_id, filters, ads, yt, excl))

\* if rows.total_rows == 0: return None; else the channel ids of the rows
get_spam_placements(customer_id, filters, ads, yt, excl) ==
    LET rows == QueryResult(customer_id, filters, ads, yt, excl)
    IN  IF Cardinality(rows) = 0 THEN None ELSE Some(rows)

(***************************************************************************)
(* ReportFetch: google_ads_report                                          *)
(***************************************************************************)
\* main: the message is validated (ValidationError when it is not valid) and
\* start_job runs the report, replaces the report table of the customer and
\* publishes the message for the enrichment stage, with the sheet_id of the
\* message it received.  channel_ids is what the ad platform reports; the ad
\* platform rejects a query that ends with AND.
ReportMain(k, channel_ids) ==
    /\ k \in PublishedTo("report")
    /\ ~Delivered(k)
    /\ LET message_json == published[k].message
       IN  IF ~IsValid(message_json, report_message_schema)
           THEN /\ delivered' = delivered \cup {<<k, "ValidationError">>}
                /\ UNCHANGED <<report, published>>
           ELSE LET sheet_id == Get(message_json, "sheet_id", Null)
                    customer_id == message_json.customer_id[2]
                    report_query ==
                        get_report_query(message_json.lookback_days[2],
                                         Some(message_json.gads_filters[2]),
                                         today)
                IN  IF report_query.status # "returned"
                    THEN /\ delivered' = delivered \cup {<<k, report_query.status>>}
                         /\ UNCHANGED <<report, published>>
                    ELSE IF EndsWithAnd(report_query.value)
                    THEN /\ delivered' = delivered \cup {<<k, "GoogleAdsException">>}
                         /\ UNCHANGED <<report, published>>
                    ELSE /\ delivered' = delivered \cup {<<k, "done">>}
                         /\ report' = [report EXCEPT ![customer_id] = channel_ids]
                         /\ published' =
                                Publish("youtube",
                                        [customer_id |-> Str(customer_id),
                                         sheet_id |-> sheet_id])
    /\ UNCHANGED <<youtube, exclusion, gads, inv, uuids, accounts, enrich>>
    /\ UNCHANGED outside_upstream

\* start_job: the report was fetched and write_results_to_bigquery raises;
\* the table is replaced by one load job, which has not happened, and
\* send_messages_to_pubsub is not reached.
ReportWriteRaises(k) ==
    /\ k \in PublishedTo("report")
    /\ ~Delivered(k)
    /\ LET message_json == published[k].message
       IN  /\ IsValid(message_json, report_message_schema)
           /\ LET report_query ==
                      get_report_query(message_json.lookback_days[2],
                                       Some(message_json.gads_filters[2]),
                                       today)
              IN  /\ report_query.status = "returned"
                  /\ ~EndsWithAnd(report_query.value)
    /\ delivered' = delivered \cup {<<k, "GenericGBQException">>}
    /\ UNCHANGED <<report, published>>
    /\ UNCHANGED <<youtube, exclusion, gads, inv, uuids, accounts, enrich>>
    /\ UNCHANGED outside_upstream

(***************************************************************************)
(* Enrich: youtube_channel                                                 *)
(***************************************************************************)
IdleEnrich ==
    [pc |-> "idle", customer_id |-> "", sheet_id |-> "", is_translated |-> FALSE,
     chunks |-> <<>>, i |-> 0, response |-> <<>>, lookups |-> <<>>,
     error |-> ""]

\* main: the message is validated (ValidationError when it is not valid) and
\* run starts, with locals of its own.  The invocations of the stage run one
\* after another.
EnrichMain(k) ==
    /\ k \in PublishedTo("youtube")
    /\ ~Delivered(k)
    /\ enrich.pc \in {"idle", "done", "failed"}
    /\ LET message_json == published[k].message
       IN  IF ~IsValid(message_json, youtube_message_schema)
           THEN /\ delivered' = delivered \cup {<<k, "ValidationError">>}
                /\ UNCHANGED enrich
           ELSE /\ delivered' = delivered \cup {<<k, "run">>}
                /\ enrich' = [IdleEnrich EXCEPT
                                 !.pc = "placements",
                                 !.customer_id = message_json.customer_id[2],
                                 !.sheet_id = message_json.sheet_id[2]]
    /\ UNCHANGED <<report, youtube, exclusion, gads, published, inv, uuids,
                   accounts>>
    /\ UNCHANGED outside_upstream

\* The rows of a query that has no ORDER BY, in ascending order: the elements
\* of a set of positive integers.
Sorted(S) ==
    IF S = {} THEN <<>>
    ELSE LET max == CHOOSE x \in S : \A y \in S : y <= x
         IN  SelectSeq([k \in 1..max |-> k], LAMBDA k : k \in S)

\* get_placements_query: SELECT DISTINCT Ads.channel_id FROM Ads LEFT JOIN
\* YouTube USING(channel_id) WHERE Ads.customer_id = "{customer_id}" AND
\* YouTube.channel_id IS NULL
get_placements_query(customer_id) ==
    Sorted({a.channel_id :
               a \in {r \in AdsRows(report) :
                         /\ r.customer_id = customer_id
                         /\ LeftJoin(youtube, r.channel_id) = {None}}})

\* chunk_size = 50
chunk_size == 50

\* The statistics and the snippet of a channel the lookup API knows, the
\* numbers as strings of digits.
Statistics ==
    [viewCount |-> <<"1", "0">>, subscriberCount |-> <<"3">>,
     videoCount |-> <<"1">>]
Snippet == [title |-> <<" ", "T", ",", "V">>, country |-> <<"U", "S">>]
Without(dict, key) == [k \in DOMAIN dict \ {key} |-> dict[k]]
Item(id, lacking) ==
    [id |-> id, statistics |-> Without(Statistics, lacking),
     snippet |-> Without(Snippet, lacking)]

\* What the lookup API may answer for a chunk: no result at all, every
\* channel in full, or every channel with the first one lacking a field.
ResponseKinds ==
    {"none", "full", "viewCount", "subscriberCount", "videoCount", "title",
     "country"}
Response(chunk_list, kind) ==
    IF kind = "none" THEN [pageInfo |-> [totalResults |-> 0]]
    ELSE [pageInfo |-> [totalResults |-> Len(chunk_list)],
          items |-> [k \in DOMAIN chunk_list |->
                        Item(chunk_list[k], IF k = 1 THEN kind ELSE "full")]]

\* detect_language(title): what the translation API answers.
detect_language(title) == <<"en", 1>>

\* One row of process_youtube_response: the values in the order in which they
\* are appended; a number that is absent is None.
ChannelRow(channel, is_translated) ==
    LET title == Get(channel.snippet, "title", <<>>)
        language == IF is_translated THEN detect_language(title) ELSE <<"", 0>>
        Count(key) == IF key \in DOMAIN channel.statistics
                      THEN Some(channel.statistics[key]) ELSE None
    IN  <<channel.id, Count("viewCount"), Count("subscriberCount"),
          Count("videoCount"), title, language[1], language[2],
          Get(channel.snippet, "country", <<>>)>>

\* A bug: the test for a page without results is missing, and the items of a
\* page that has none are read.
process_youtube_response_no_test(response, is_translated) ==
    IF "items" \notin DOMAIN response THEN Raised("KeyError")
    ELSE Returned([k \in DOMAIN response.items |->
                      ChannelRow(response.items[k], is_translated)])

\* process_youtube_response: no row for a page with totalResults == 0,
\* otherwise one row per item.
process_youtube_response(response, is_translated) ==
    IF response.pageInfo.totalResults = 0 THEN Returned(<<>>)
    ELSE Returned([k \in DOMAIN response.items |->
                      ChannelRow(response.items[k], is_translated)])

\* pd.DataFrame(channels, columns=[...]): the values of a row by position,
\* and the column datetime_updated.
DataFrame(channels) ==
    [k \in DOMAIN channels |->
        [channel_id |-> channels[k][1],
         view_count |-> channels[k][2],
         video_count |-> channels[k][3],
         subscriber_count |-> channels[k][4],
         title |-> channels[k][5],
         title_language |-> channels[k][6],
         title_language_confidence |-> channels[k][7],
         country |-> channels[k][8],
         datetime_updated |-> today]]

\* APE_CSV_PROBLEM_CHARACTERS_REGEX, and the white space str.strip removes.
ProblemCharacters == {"$", "\"", "'", "\r", "\n", "\t", ",", ";", ":"}
IsClean(ch) == ch \notin ProblemCharacters
StripCharacters == {" ", "\t", "\n", "\r"}
RECURSIVE RStripCharacters(_)
RStripCharacters(chars) ==
    IF chars # <<>> /\ chars[Len(chars)] \in StripCharacters
    THEN RStripCharacters(SubSeq(chars, 1, Len(chars) - 1))
    ELSE chars
RECURSIVE LStripCharacters(_)
LStripCharacters(chars) ==
    IF chars # <<>> /\ Head(chars) \in StripCharacters
    THEN LStripCharacters(Tail(chars))
    ELSE chars
SanitiseTitle(title) ==
    LStripCharacters(RStripCharacters(SelectSeq(title, IsClean)))

\* astype('int') of one value: int(None) raises TypeError, int of a string
\* that is no integer raises ValueError.
AsTypeIntRaises(value) ==
    IF value = None THEN "TypeError"
    ELSE IF ~IsInteger(value[1]) THEN "ValueError"
    ELSE ""

\* sanitise_youtube_dataframe: the three counts as integers, the title
\* without the problem characters and stripped.
sanitise_youtube_dataframe(youtube_df) ==
    LET errors ==
            {AsTypeIntRaises(youtube_df[k][column]) :
                k \in DOMAIN youtube_df,
                column \in {"view_count", "video_count", "subscriber_count"}}
            \ {""}
    IN  IF errors # {} THEN Raised(CHOOSE e \in errors : TRUE)
        ELSE Returned(
                 [k \in DOMAIN youtube_df |->
                     [youtube_df[k] EXCEPT
                         !.view_count = Number(@[1]),
                         !.video_count = Number(@[1]),
                         !.subscriber_count = Number(@[1]),
                         !.title = SanitiseTitle(@)]])

\* run: get_placements_query, and for a report that has channels to look up
\* the start of get_youtube_dataframe: the chunks and the translation filter
\* of the sheet.
GetPlacementsQuery(is_translated) ==
    /\ enrich.pc = "placements"
    /\ LET channel_ids == get_placements_query(enrich.customer_id)
       IN  IF Len(channel_ids) > 0
           THEN LET split == split_list_to_chunks(channel_ids, chunk_size)
                IN  enrich' = [enrich EXCEPT !.pc = "lookup",
                                             !.chunks = split.value,
                                             !.i = 1,
                                             !.is_translated = is_translated]
           ELSE enrich' = [enrich EXCEPT !.pc = "publish"]
    /\ UNCHANGED <<report, youtube, exclusion, gads, published, inv, uuids,
                   delivered, accounts>>
    /\ UNCHANGED outside_upstream

\* The loop has run for chunk i: the next chunk, or the end of the loop.
NextChunk(r) ==
    [r EXCEPT !.i = @ + 1,
              !.pc = IF r.i = Len(r.chunks) THEN "publish" ELSE "lookup"]

\* One turn of the loop of get_youtube_dataframe: the lookup of chunk i, the
\* rows of the response, the DataFrame, and write_results_to_gcs, which
\* writes a blob when there are rows.
LookupChunk(kind) ==
    /\ enrich.pc = "lookup"
    /\ LET chunk_list == enrich.chunks[enrich.i]
           response == Response(chunk_list, kind)
           looked_up ==
               [enrich EXCEPT
                   !.response = response,
                   !.lookups =
                       Append(@, [id |-> chunk_list,
                                  totalResults |-> response.pageInfo.totalResults])]
           channels == process_youtube_response(response, enrich.is_translated)
       IN  IF channels.status # "returned"
           THEN /\ enrich' = [looked_up EXCEPT !.pc = "failed",
                                               !.error = channels.status]
                /\ UNCHANGED <<youtube, uuids>>
           ELSE LET youtube_df ==
                        sanitise_youtube_dataframe(DataFrame(channels.value))
                IN  IF youtube_df.status # "returned"
                    THEN /\ enrich' = [looked_up EXCEPT
                                          !.pc = "failed",
                                          !.error = youtube_df.status]
                         /\ UNCHANGED <<youtube, uuids>>
                    ELSE IF Len(youtube_df.value) > 0
                    THEN /\ enrich' = NextChunk(looked_up)
                         /\ uuids' = uuids + 1
                         /\ youtube' = youtube \cup
                                {youtube_df.value[k] :
                                    k \in DOMAIN youtube_df.value}
                    ELSE /\ enrich' = NextChunk(looked_up)
                         /\ UNCHANGED <<youtube, uuids>>
    /\ UNCHANGED <<report, exclusion, gads, published, inv, delivered, accounts>>
    /\ UNCHANGED outside_upstream

\* One turn of the loop in which an external call raises: the lookup
\* (HttpError), and nothing was looked up, or the upload of the rows
\* (GoogleCloudError), and nothing was written.  run does not go on.
LookupErrors == {"HttpError", "GoogleCloudError"}
LookupChunkRaises(error) ==
    /\ enrich.pc = "lookup"
    /\ LET chunk_list == enrich.chunks[enrich.i]
           response == Response(chunk_list, "full")
           looked_up ==
               [enrich EXCEPT
                   !.response = response,
                   !.lookups =
                       Append(@, [id |-> chunk_list,
                                  totalResults |-> response.pageInfo.totalResults])]
       IN  enrich' = [(IF error = "HttpError" THEN enrich ELSE looked_up)
                         EXCEPT !.pc = "failed", !.error = error]
    /\ UNCHANGED <<youtube, uuids>>
    /\ UNCHANGED <<report, exclusion, gads, published, inv, delivered, accounts>>
    /\ UNCHANGED outside_upstream

\* run: send_messages_to_pubsub(customer_id, sheet_id)
EnrichSendMessages ==
    /\ enrich.pc = "publish"
    /\ published' = Publish("excluder",
                            [customer_id |-> Str(enrich.customer_id),
                             sheet_id |-> Str(enrich.sheet_id)])
    /\ enrich' = [enrich EXCEPT !.pc = "done"]
    /\ UNCHANGED <<report, youtube, exclusion, gads, inv, uuids, delivered,
                   accounts>>
    /\ UNCHANGED outside_upstream

UpstreamIdle ==
    /\ delivered = {}
    /\ accounts = IdleAccounts
    /\ enrich = IdleEnrich

(***************************************************************************)
(* Excluder: one invocation, main -> run                                   *)
(***************************************************************************)
IdleInvocation ==
    [pc |-> "idle", customer_id |-> "", filters |-> <<>>, placements |-> None,
     nothing_to_update |-> FALSE, blob |-> None, error |-> ""]

\* The invocations that have started and have not ended.
Active == {i \in Inv : inv[i].pc \in {"query", "exclude", "write"}}

\* A bug: the history is written before the placements are excluded.
run_order_write_first == <<"write", "exclude">>

\* run: the two calls made when placements is not None, in program order.
run_order == <<"exclude", "write">>
AfterQuery(placements) == IF placements # None THEN run_order[1] ELSE "done"
AfterStep(step) == IF step = run_order[1] THEN run_order[2] ELSE "done"

\* A local step of run: the invocation goes on at pc.
Goto(r, pc) == [r EXCEPT !.pc = pc]
\* run returns, raises or is stopped: its locals are gone.
Ended(r, pc, error) ==
    [r EXCEPT !.pc = pc, !.error = error, !.filters = <<>>, !.placements = None]
Continue(r, pc) == IF pc = "done" THEN Ended(r, "done", "") ELSE Goto(r, pc)

\* main: the message of the Excluder topic is decoded and validated, run
\* starts and get_config_filters reads the rows of yt_exclusion_filters.
Main(i, c, rows) ==
    /\ inv[i].pc = "idle"
    /\ \A j \in 1..(i - 1) : inv[j].pc # "idle"
    /\ \E k \in PublishedTo("excluder") :
           /\ published[k].message = ExcluderMessage(c)
           /\ IsValid(published[k].message, excluder_message_schema)
    /\ inv' = [inv EXCEPT ![i] =
                 IF get_config_filters_raises(rows)
                 THEN Ended([@ EXCEPT !.customer_id = c], "failed", "BadRequest")
                 ELSE Goto([@ EXCEPT !.customer_id = c,
                                     !.filters = get_config_filters(rows)],
                           "query")]
    /\ UNCHANGED <<report, youtube, exclusion, gads, published, uuids>>
    /\ UNCHANGED outside_pipeline

\* main, from the delivery of message k of the Excluder topic on: a message
\* that is not valid raises ValidationError and run is not called.
ExcluderMain(k, i, rows) ==
    /\ k \in PublishedTo("excluder")
    /\ ~Delivered(k)
    /\ inv[i].pc = "idle"
    /\ \A j \in 1..(i - 1) : inv[j].pc # "idle"
    /\ LET message_json == published[k].message
       IN  IF ~IsValid(message_json, excluder_message_schema)
           THEN /\ delivered' = delivered \cup {<<k, "ValidationError">>}
                /\ UNCHANGED inv
           ELSE LET c == message_json.customer_id[2]
                IN  /\ delivered' = delivered \cup {<<k, "run">>}
                    /\ inv' = [inv EXCEPT ![i] =
                          IF get_config_filters_raises(rows)
                          THEN Ended([@ EXCEPT !.customer_id = c],
                                     "failed", "BadRequest")
                          ELSE Goto([@ EXCEPT !.customer_id = c,
                                              !.filters = get_config_filters(rows)],
                                    "query")]
    /\ UNCHANGED <<report, youtube, exclusion, gads, published, uuids,
                   accounts, enrich>>
    /\ UNCHANGED outside_upstream

\* placements = get_spam_placements(customer_id, filters, credentials)
GetSpamPlacements(i) ==
    /\ inv[i].pc = "query"
    /\ LET placements == get_spam_placements(inv[i].customer_id, inv[i].filters,
                                             report, youtube, exclusion)
       IN  inv' = [inv EXCEPT ![i] =
                     Continue([@ EXCEPT !.placements = placements,
                                        !.nothing_to_update = (placements = None)],
                              AfterQuery(placements))]
    /\ UNCHANGED <<report, youtube, exclusion, gads, published, uuids>>
    /\ UNCHANGED outside_pipeline

\* The request exclude_placements_in_gads sends: one operation per placement,
\* and no request at all for an empty list.
MutateRequests(i, ok) ==
    IF Cardinality(inv[i].placements[1]) > 0
    THEN {[inv |-> i, channel_ids |-> inv[i].placements[1], ok |-> ok,
           validate_only |-> VALIDATE_ONLY]}
    ELSE {}

\* exclude_placements_in_gads raises: the mutate request was rejected.
ExcludePlacementsRaises(i) ==
    /\ inv[i].pc = "exclude"
    /\ gads' = gads \cup MutateRequests(i, FALSE)
    /\ inv' = [inv EXCEPT ![i] = Ended(@, "failed", "GoogleAdsException")]
    /\ UNCHANGED <<report, youtube, exclusion, published, uuids>>
    /\ UNCHANGED outside_pipeline

\* A bug: the upload is lost.
UploadBlob_Lost(blobs, blob_name, content) == blobs

\* gcs.upload_blob_from_df: the blob of that name is created or overwritten.
UploadBlob(blobs, blob_name, content) ==
    [n \in DOMAIN blobs \cup {blob_name} |->
        IF n = blob_name THEN content ELSE blobs[n]]

\* The DataFrame write_results_to_gcs builds: the placements, int(customer_id).
ExclusionBlob(customer_id, placements) ==
    [customer_id |-> IntOf(customer_id), channel_ids |-> placements]

\* A bug: exclude_placements_in_gads also records the exclusions, before run
\* reaches write_results_to_gcs.
ExcludePlacementsInGads_AndRecord(i) ==
    /\ inv[i].pc = "exclude"
    /\ gads' = gads \cup MutateRequests(i, TRUE)
    /\ uuids' = uuids + 1
    /\ exclusion' = UploadBlob(exclusion, <<inv[i].customer_id, uuids + 1>>,
            ExclusionBlob(inv[i].customer_id, inv[i].placements[1]))
    /\ inv' = [inv EXCEPT ![i] = Continue(@, AfterStep("exclude"))]
    /\ UNCHANGED <<report, youtube, published>>
    /\ UNCHANGED outside_pipeline

\* exclude_placements_in_gads returns: the mutate request was accepted.
ExcludePlacementsInGads(i) ==
    /\ inv[i].pc = "exclude"
    /\ gads' = gads \cup MutateRequests(i, TRUE)
    /\ inv' = [inv EXCEPT ![i] = Continue(@, AfterStep("exclude"))]
    /\ UNCHANGED <<report, youtube, exclusion, published, uuids>>
    /\ UNCHANGED outside_pipeline

\* A bug: the name of the blob has no uuid in it.
blob_name_without_uuid(customer_id, uuid_str) == <<customer_id, 0>>

\* blob_name = f'google_ads_exclusion/{customer_id}-{uuid_str}.csv'
blob_name_of(customer_id, uuid_str) == <<customer_id, uuid_str>>

\* write_results_to_gcs: int(customer_id) raises ValueError for a customer_id
\* that is no integer literal; the blob is written when there are rows.  The
\* uuid4 values drawn are numbered: no two draws give the same value.
WriteResultsToGcs(i) ==
    /\ inv[i].pc = "write"
    /\ IF ~IsIntegerLiteral(inv[i].customer_id)
       THEN /\ inv' = [inv EXCEPT ![i] = Ended(@, "failed", "ValueError")]
            /\ UNCHANGED <<exclusion, uuids>>
       ELSE IF Cardinality(inv[i].placements[1]) > 0
       THEN LET blob_name == blob_name_of(inv[i].customer_id, uuids + 1)
            IN  /\ uuids' = uuids + 1
                /\ exclusion' = UploadBlob(exclusion, blob_name,
                        ExclusionBlob(inv[i].customer_id, inv[i].placements[1]))
                /\ inv' = [inv EXCEPT ![i] =
                        Continue([@ EXCEPT !.blob = Some(blob_name)],
                                 AfterStep("write"))]
       ELSE /\ inv' = [inv EXCEPT ![i] = Continue(@, AfterStep("write"))]
            /\ UNCHANGED <<exclusion, uuids>>
    /\ UNCHANGED <<report, youtube, gads, published>>
    /\ UNCHANGED outside_pipeline

\* The invocation stops where it is: the function instance crashes or times
\* out, or an external call (sheet, query, upload) raises.
Crash(i) ==
    /\ i \in Active
    /\ inv' = [inv EXCEPT ![i] = Ended(@, "crashed", "")]
    /\ UNCHANGED <<report, youtube, exclusion, gads, published, uuids>>
    /\ UNCHANGED outside_pipeline

(***************************************************************************)
(* The stages upstream of the Excluder, by what they write                 *)
(***************************************************************************)
\* The report stage replaces the report of one customer.
ReportWrite(c, channel_ids) ==
    /\ report[c] # channel_ids
    /\ report' = [report EXCEPT ![c] = channel_ids]
    /\ UNCHANGED <<youtube, exclusion, gads, published, inv, uuids>>
    /\ UNCHANGED outside_pipeline

\* The enrichment stage appends a row of channel metadata.
YoutubeWrite(p, v) ==
    /\ [channel_id |-> p, view_count |-> v] \notin youtube
    /\ youtube' = youtube \cup {[channel_id |-> p, view_count |-> v]}
    /\ UNCHANGED <<report, exclusion, gads, published, inv, uuids>>
    /\ UNCHANGED outside_pipeline

(***************************************************************************)
(* Specifications                                                          *)
(***************************************************************************)
PipelineInit ==
    /\ report = [c \in Customers |-> {}]
    /\ youtube = {}
    /\ exclusion = <<>>
    /\ gads = {}
    /\ published = PublishAll(<<>>, "excluder",
                               <<ExcluderMessage("1"), ExcluderMessage("2")>>)
    /\ inv = [i \in Inv |-> IdleInvocation]
    /\ uuids = 0
    \* os.environ.get('APE_EXCLUSION_VALIDATE_ONLY', 'False'): the default
    /\ VALIDATE_ONLY = FALSE

Init ==
    PipelineInit /\ UpstreamIdle /\ CompilerIdle /\ ChunkingIdle /\ QueryIdle

Next ==
    \/ \E i \in Inv, c \in Customers, rows \in SheetConfigs : Main(i, c, rows)
    \/ \E i \in Inv : GetSpamPlacements(i)
    \/ \E i \in Inv : ExcludePlacementsInGads(i)
    \/ \E i \in Inv : ExcludePlacementsRaises(i)
    \/ \E i \in Inv : WriteResultsToGcs(i)
    \/ \E i \in Inv : Crash(i)
    \/ \E c \in Customers, S \in SUBSET Channels : ReportWrite(c, S)
    \/ \E p \in Channels, v \in ViewCounts : YoutubeWrite(p, v)

Spec == Init /\ [][Next]_vars

\* The invocations run one after another: a message is delivered, and the
\* tables are written by the upstream stages, only while no invocation runs.
MainAlone(i, c, rows) == Active = {} /\ Main(i, c, rows)
ReportWriteBetweenRuns(c, channel_ids) == Active = {} /\ ReportWrite(c, channel_ids)
YoutubeWriteBetweenRuns(p, v) == Active = {} /\ YoutubeWrite(p, v)

NextSeq ==
    \/ \E i \in Inv, c \in Customers, rows \in SheetConfigs : MainAlone(i, c, rows)
    \/ \E i \in Inv : GetSpamPlacements(i)
    \/ \E i \in Inv : ExcludePlacementsInGads(i)
    \/ \E i \in Inv : ExcludePlacementsRaises(i)
    \/ \E i \in Inv : WriteResultsToGcs(i)
    \/ \E i \in Inv : Crash(i)
    \/ \E c \in Customers, S \in SUBSET Channels : ReportWriteBetweenRuns(c, S)
    \/ \E p \in Channels, v \in ViewCounts : YoutubeWriteBetweenRuns(p, v)

SpecSeq == Init /\ [][NextSeq]_vars

\* The filter compilers applied to every list of rows within the bounds.
InitCompile ==
    PipelineInit /\ UpstreamIdle /\ CompilerInit /\ ChunkingIdle /\ QueryIdle
NextCompile == CompileSql \/ CompileGaql
SpecCompile == InitCompile /\ [][NextCompile]_vars

\* split_list_to_chunks applied to every list and chunk size within the bounds.
InitChunks ==
    PipelineInit /\ UpstreamIdle /\ CompilerIdle /\ ChunkingInit /\ QueryIdle
NextChunks == SplitListToChunks
SpecChunks == InitChunks /\ [][NextChunks]_vars

\* get_query_dates applied to every date and lookback within the bounds.
InitDates ==
    PipelineInit /\ UpstreamIdle /\ CompilerIdle /\ ChunkingIdle /\ DatesInit
NextDates == GetQueryDates
SpecDates == InitDates /\ [][NextDates]_vars

\* get_report_query applied to no filters and to every compiled filter string.
InitQuery ==
    PipelineInit /\ UpstreamIdle /\ CompilerIdle /\ ChunkingIdle /\ QueryInit
NextQuery == GetReportQuery
SpecQuery == InitQuery /\ [][NextQuery]_vars

\* The stages upstream of the Excluder, from the HTTP request on.
NextStages ==
    \/ \E request_json \in Requests, customer_ids \in AccountSheets,
          filter_rows \in FilterSheets, lookback \in LookbackCells :
          AccountsMain(request_json, customer_ids, filter_rows, lookback)
    \/ \E k \in DOMAIN published, S \in SUBSET Channels : ReportMain(k, S)
    \/ \E k \in DOMAIN published : EnrichMain(k)
InitStages ==
    /\ report = [c \in Customers |-> {}]
    /\ youtube = {}
    /\ exclusion = <<>>
    /\ gads = {}
    /\ published = <<>>
    /\ inv = [i \in Inv |-> IdleInvocation]
    /\ uuids = 0
    /\ VALIDATE_ONLY = FALSE
    /\ UpstreamIdle /\ CompilerIdle /\ ChunkingIdle /\ QueryIdle
SpecStages == InitStages /\ [][NextStages]_vars

\* One invocation of the enrichment stage, for a customer whose report holds
\* the channels 1..n, none of them in the metadata yet.
NextEnrich ==
    \/ \E k \in DOMAIN published : EnrichMain(k)
    \/ \E is_translated \in BOOLEAN : GetPlacementsQuery(is_translated)
    \/ \E kind \in ResponseKinds : LookupChunk(kind)
    \/ EnrichSendMessages
\* The sizes of the report: those at which the number of chunks changes.
ReportSizes == {n \in 0..MaxChannels : n % chunk_size <= 1}
InitEnrich ==
    /\ \E n \in ReportSizes :
           report = [c \in Customers |-> IF c = "1" THEN 1..n ELSE {}]
    /\ youtube = {}
    /\ exclusion = <<>>
    /\ gads = {}
    /\ published = PublishAll(<<>>, "youtube",
                              <<[customer_id |-> Str("1"),
                                 sheet_id |-> Str(SheetId)]>>)
    /\ inv = [i \in Inv |-> IdleInvocation]
    /\ uuids = 0
    /\ VALIDATE_ONLY = FALSE
    /\ UpstreamIdle /\ CompilerIdle /\ ChunkingIdle /\ QueryIdle
SpecEnrich == InitEnrich /\ [][NextEnrich]_vars

\* Two deliveries to the enrichment stage for the same customer, the report
\* unchanged in between: the message is redelivered, or the report stage ran
\* again and fetched the same report.  The report has at most two chunks.
InitEnrichAgain ==
    /\ \E n \in {size \in ReportSizes : size <= chunk_size + 1} :
           report = [c \in Customers |-> IF c = "1" THEN 1..n ELSE {}]
    /\ youtube = {}
    /\ exclusion = <<>>
    /\ gads = {}
    /\ published = PublishAll(<<>>, "youtube",
                              <<[customer_id |-> Str("1"),
                                 sheet_id |-> Str(SheetId)],
                                [customer_id |-> Str("1"),
                                 sheet_id |-> Str(SheetId)]>>)
    /\ inv = [i \in Inv |-> IdleInvocation]
    /\ uuids = 0
    /\ VALIDATE_ONLY = FALSE
    /\ UpstreamIdle /\ CompilerIdle /\ ChunkingIdle /\ QueryIdle
SpecEnrichAgain == InitEnrichAgain /\ [][NextEnrich]_vars

\* The four stages from end to end.  The topics are open to other
\* publishers: a behaviour starts with no message, or with one payload on
\* one of the topics.
Topics == {"report", "youtube", "excluder"}
\* The compiled filters of a message for the report stage.
ClicksFilter == Join(GaqlConditions(<< <<"clicks", "<", "1">> >>))
\* The payloads: for the enrichment stage and the Excluder a customer_id
\* and a sheet_id, without the sheet_id, with a customer_id that is a
\* number, with a customer_id that is no integer; for the report stage the
\* three required fields, with a sheet_id, with a sheet_id that is a number,
\* with a lookback_days that is a string, without gads_filters.
Payloads ==
    {[customer_id |-> Str("2"), sheet_id |-> Str(SheetId)],
     [customer_id |-> Str("2")],
     [customer_id |-> Num(2), sheet_id |-> Str(SheetId)],
     [customer_id |-> Str("x"), sheet_id |-> Str(SheetId)],
     [customer_id |-> Str("2"), lookback_days |-> Num(30),
      gads_filters |-> Str(ClicksFilter)],
     [customer_id |-> Str("2"), lookback_days |-> Num(30),
      gads_filters |-> Str(ClicksFilter), sheet_id |-> Str(SheetId)],
     [customer_id |-> Str("2"), lookback_days |-> Num(30),
      gads_filters |-> Str(ClicksFilter), sheet_id |-> Num(1)],
     [customer_id |-> Str("2"), lookback_days |-> Str("30"),
      gads_filters |-> Str(ClicksFilter), sheet_id |-> Str(SheetId)],
     [customer_id |-> Str("2"), lookback_days |-> Num(30),
      sheet_id |-> Str(SheetId)]}
\* The sheets of the account stage: customer 1 enabled, customer 2 disabled,
\* one filter, a lookback of 30 days.
PipelineAccountSheets ==
    SeqUpTo({<<"1", "Enabled">>, <<"2", "Disabled">>}, MaxAccounts)
PipelineFilterSheets == {rows \in FilterSheets : Len(rows) = 1 /\ Len(rows[1]) = 3}
PipelineLookbackCells == {cell \in LookbackCells : IsInteger(cell)}
\* The channels of a report, numbered.
ChannelNumbers == 1..Cardinality(Channels)
\* What the ad platform reports for a customer in the pipeline: nothing, or
\* every channel.
PipelineReports == {{}, ChannelNumbers}
\* What the lookup API answers in the pipeline.
PipelineResponseKinds == {"none", "full", "viewCount"}

InitPipeline ==
    /\ report = [c \in Customers |-> {}]
    /\ youtube = {}
    /\ exclusion = <<>>
    /\ gads = {}
    /\ \/ published = <<>>
       \/ \E topic \in Topics, payload \in Payloads :
              published = <<[topic |-> topic, message |-> payload]>>
    /\ inv = [i \in Inv |-> IdleInvocation]
    /\ uuids = 0
    /\ VALIDATE_ONLY \in BOOLEAN
    /\ UpstreamIdle /\ CompilerIdle /\ ChunkingIdle /\ QueryIdle

\* The steps of a running invocation of the enrichment stage and of the
\* Excluder in which no external call fails.
EnrichSteps ==
    \/ \E is_translated \in BOOLEAN : GetPlacementsQuery(is_translated)
    \/ \E kind \in PipelineResponseKinds : LookupChunk(kind)
    \/ EnrichSendMessages
ExcluderSteps ==
    \/ \E i \in Inv : GetSpamPlacements(i)
    \/ \E i \in Inv : ExcludePlacementsInGads(i)
    \/ \E i \in Inv : WriteResultsToGcs(i)

NextPipeline ==
    \/ \E request_json \in Requests, customer_ids \in PipelineAccountSheets,
          filter_rows \in PipelineFilterSheets,
          lookback \in PipelineLookbackCells :
          AccountsMain(request_json, customer_ids, filter_rows, lookback)
    \/ \E k \in DOMAIN published, S \in PipelineReports : ReportMain(k, S)
    \/ \E k \in DOMAIN published : ReportWriteRaises(k)
    \/ \E k \in DOMAIN published : EnrichMain(k)
    \/ EnrichSteps
    \/ \E error \in LookupErrors : LookupChunkRaises(error)
    \/ \E k \in DOMAIN published, i \in Inv, rows \in SheetConfigs :
          ExcluderMain(k, i, rows)
    \/ ExcluderSteps
    \/ \E i \in Inv : ExcludePlacementsRaises(i)
    \/ \E i \in Inv : Crash(i)

SpecPipeline == InitPipeline /\ [][NextPipeline]_vars

\* Every message published is delivered to the stage of its topic, and a
\* running invocation takes its next step.
PipelineFairness ==
    /\ WF_vars(\E k \in DOMAIN published, S \in PipelineReports :
                  ReportMain(k, S))
    /\ WF_vars(\E k \in DOMAIN published : EnrichMain(k))
    /\ WF_vars(EnrichSteps)
    /\ WF_vars(\E k \in DOMAIN published, i \in Inv, rows \in SheetConfigs :
                  ExcluderMain(k, i, rows))
    /\ WF_vars(ExcluderSteps)

\* The pipeline with the Excluder applying its exclusions, started with no
\* message or with a message for the report stage that has a sheet_id.
InitPipelineFair ==
    /\ InitPipeline
    /\ VALIDATE_ONLY = FALSE
    /\ published # <<>>
       => /\ published[1].topic = "report"
          /\ IsValid(published[1].message, report_message_schema)
          /\ IsValid(published[1].message, youtube_message_schema)

SpecPipelineFair ==
    InitPipelineFair /\ [][NextPipeline]_vars /\ PipelineFairness

(***************************************************************************)
(* Properties of the Excluder                                              *)
(***************************************************************************)
\* The mutate request of invocation i was accepted by the ad platform.
Mutated(i) == \E r \in gads : r.inv = i /\ r.ok
\* Invocation i sent a mutate request.
Requested(i) == \E r \in gads : r.inv = i
\* Invocation i appended a blob to the exclusion history.
Wrote(i) == inv[i].blob # None

\* C1: an invocation appends to the exclusion history only after its mutate
\* call has returned successfully; an invocation whose mutate call raised has
\* appended nothing, and every blob of the history was appended that way.
C1_HistoryOnlyAfterMutation ==
    /\ \A i \in Inv : Wrote(i) => Mutated(i)
    /\ \A i \in Inv : inv[i].error = "GoogleAdsException" => ~Wrote(i)
    /\ \A n \in DOMAIN exclusion :
           \E i \in Inv : inv[i].blob = Some(n) /\ Mutated(i)

\* One invocation has excluded and recorded its placements, another one's
\* mutate call raised.
C1_Witness ==
    \E i, j \in Inv :
        /\ inv[i].pc = "done" /\ Wrote(i) /\ Mutated(i)
        /\ inv[j].error = "GoogleAdsException" /\ Requested(j)

\* The channels invocation i submitted in an accepted mutate request.
ChannelsOf(i) == UNION {r.channel_ids : r \in {q \in gads : q.inv = i}}

\* C2: when an invocation stops after its mutate call has returned and before
\* the history append, that step leaves the history unchanged, and the
\* reconciliation for the same customer and filters over the report, metadata
\* and history of the next state returns the same placements again.
C2_CrashBeforeAppendResurfaces ==
    [][\A i \in Inv :
          (inv[i].pc = "write" /\ Mutated(i) /\ inv'[i].pc \in {"crashed", "failed"})
          => /\ exclusion' = exclusion
             /\ ~\E n \in DOMAIN exclusion' : inv'[i].blob = Some(n)
             /\ get_spam_placements(inv[i].customer_id, inv[i].filters,
                                    report', youtube', exclusion')
                = inv[i].placements]_vars

\* An invocation crashed between the mutate call and the append, and the next
\* invocation for the same customer has received the same placements.
C2_Witness ==
    \E i, j \in Inv :
        /\ i < j
        /\ inv[i].pc = "crashed" /\ Mutated(i) /\ ~Wrote(i)
        /\ inv[j].customer_id = inv[i].customer_id
        /\ inv[j].pc = "exclude"
        /\ inv[j].placements = Some(ChannelsOf(i))

\* C3: in the step in which a run appends the placements N it received to the
\* history, a second reconciliation with the same customer and filters over
\* the same report and metadata returns None, and the blob holds exactly N.
C3_ReconciliationIdempotent ==
    [][\A i \in Inv :
          (inv[i].pc = "write" /\ ~Wrote(i) /\ inv'[i].blob # None)
          => /\ exclusion'[inv'[i].blob[1]].channel_ids = inv[i].placements[1]
             /\ get_spam_placements(inv[i].customer_id, inv[i].filters,
                                    report', youtube', exclusion') = None]_vars

\* A run has appended its placements, which the report still holds, and a
\* later run for the same customer found nothing to update.
C3_Witness ==
    \E i, j \in Inv :
        /\ i < j
        /\ inv[i].pc = "done" /\ Wrote(i)
        /\ ChannelsOf(i) # {} /\ ChannelsOf(i) \subseteq report[inv[i].customer_id]
        /\ inv[j].customer_id = inv[i].customer_id
        /\ inv[j].pc = "done" /\ inv[j].nothing_to_update

\* How often channel p was submitted to the ad platform for customer c, and
\* how many exclusion records the history holds for it.
Submitted(c, p) ==
    Cardinality({r \in gads : inv[r.inv].customer_id = c /\ p \in r.channel_ids})
Recorded(c, p) ==
    Cardinality({n \in DOMAIN exclusion :
                    /\ exclusion[n].customer_id = IntOf(c)
                    /\ p \in exclusion[n].channel_ids})

\* Every invocation so far has run to completion: none crashed, none raised
\* after its query.
AllRanToCompletion ==
    \A i \in Inv : /\ inv[i].pc # "crashed"
                    /\ inv[i].error \in {"", "BadRequest"}

\* C4: when the invocations run one after another and each runs to
\* completion, every channel is submitted to the ad platform at most once per
\* customer and has at most one exclusion record per customer.
C4_AtMostOncePerPlacement ==
    AllRanToCompletion =>
        \A c \in Customers, p \in Channels :
            Submitted(c, p) <= 1 /\ Recorded(c, p) <= 1

\* Two runs for one customer have completed, each having excluded and
\* recorded placements.
C4_Witness ==
    /\ AllRanToCompletion
    /\ \E i, j \in Inv :
          /\ i < j
          /\ inv[i].customer_id = inv[j].customer_id
          /\ inv[i].pc = "done" /\ Wrote(i) /\ Mutated(i)
          /\ inv[j].pc = "done" /\ Wrote(j) /\ Mutated(j)

\* C5: under at-least-once delivery with interleaved invocations, for every
\* customer whose invocations all ran to completion, every channel is
\* submitted to the ad platform at most once and recorded at most once.
C5_AtMostOnceUnderRedelivery ==
    \A c \in Customers :
        (\A i \in Inv : inv[i].customer_id = c =>
            inv[i].pc # "crashed" /\ inv[i].error \in {"", "BadRequest"})
        => \A p \in Channels : Submitted(c, p) <= 1 /\ Recorded(c, p) <= 1

\* The placements reported for the customer whose metadata satisfies the
\* filters, minus those the history holds for the same customer.
ExpectedPlacements(customer_id, filters) ==
    {p \in report[customer_id] :
        /\ \E y \in youtube : y.channel_id = p /\ FiltersHold(filters, Some(y))
        /\ Recorded(customer_id, p) = 0}

\* What an invocation received from get_spam_placements, as a set.
Received(r) == IF r.placements = None THEN {} ELSE r.placements[1]

\* C6: the placements an invocation receives from get_spam_placements are
\* exactly those reported for its customer with metadata satisfying the
\* filters, minus the history of that customer alone.
C6_ScopedToCustomer ==
    [][\A i \in Inv :
          (inv[i].pc = "query" /\ inv'[i].pc \in {"exclude", "write", "done"})
          => IF inv'[i].pc = "done"
             THEN ExpectedPlacements(inv[i].customer_id, inv[i].filters) = {}
             ELSE Received(inv'[i])
                  = ExpectedPlacements(inv[i].customer_id, inv[i].filters)]_vars

\* C7: when the query returns no rows, get_spam_placements logs that there is
\* nothing to update and returns None, the run ends without an error in that
\* step, leaving the ad platform and the history as they are; an invocation
\* that had nothing to update has sent no mutate request and written no blob.
C7_NothingToUpdate ==
    /\ [][\A i \in Inv :
             (/\ inv[i].pc = "query"
              /\ inv'[i].pc \notin {"query", "crashed"}
              /\ QueryResult(inv[i].customer_id, inv[i].filters,
                             report, youtube, exclusion) = {})
             => /\ inv'[i].nothing_to_update
                /\ inv'[i].pc = "done" /\ inv'[i].error = ""
                /\ inv'[i].placements = None
                /\ gads' = gads /\ exclusion' = exclusion]_vars
    /\ [](\A i \in Inv :
             inv[i].nothing_to_update
             => /\ inv[i].pc = "done" /\ inv[i].error = ""
                /\ ~Requested(i) /\ ~Wrote(i))

\* An invocation found nothing to update although its customer's report is
\* not empty.
C7_Witness ==
    \E i \in Inv :
        /\ inv[i].pc = "done" /\ inv[i].nothing_to_update
        /\ report[inv[i].customer_id] # {}

\* C8: an invocation reaches the query only with filters that are not empty;
\* an invocation that raised BadRequest has sent no mutate request, written
\* no blob and published nothing, and the step in which it raised changed
\* nothing but that invocation.
C8_EmptyFiltersFailFast ==
    /\ [](\A i \in Inv :
             /\ i \in Active => Len(inv[i].filters) > 0
             /\ inv[i].error = "BadRequest"
                => /\ inv[i].pc = "failed" /\ ~inv[i].nothing_to_update
                   /\ ~Requested(i) /\ ~Wrote(i))
    /\ [][\A i \in Inv :
             (inv[i].pc = "idle" /\ inv'[i].error = "BadRequest")
             => /\ \A j \in Inv \ {i} : inv'[j] = inv[j]
                /\ UNCHANGED <<report, youtube, exclusion, gads, published,
                               uuids>>]_vars
    /\ [][published' = published]_vars

\* One invocation raised BadRequest; an invocation for another customer,
\* started before it and still running when it raised, has excluded and
\* recorded its placements.
C8_Witness ==
    \E i, j \in Inv :
        /\ j < i
        /\ inv[i].error = "BadRequest"
        /\ inv[j].customer_id # inv[i].customer_id
        /\ inv[j].pc = "done" /\ Wrote(j) /\ Mutated(j)

(***************************************************************************)
(* Properties of the filter compilers                                      *)
(***************************************************************************)
HasThreeCells(row) == Len(row) = 3
AllThreeCells(rows) == \A k \in 1..Len(rows) : HasThreeCells(rows[k])

\* out consists of one condition per row, in the order of the rows, each the
\* pieces `prefix`, field, " ", operator, " ", value, with " AND " between
\* two conditions and nothing else.
JoinedInOrder(out, rows, prefix) ==
    LET n == Len(rows)
        w == Len(prefix) + 5
    IN  /\ Len(out) = IF n = 0 THEN 0 ELSE (w + 1) * n - 1
        /\ \A k \in 1..n :
              SubSeq(out, (w + 1) * (k - 1) + 1, (w + 1) * (k - 1) + w)
              = prefix \o <<rows[k][1], " ", rows[k][2], " ", rows[k][3]>>
        /\ \A k \in 1..(n - 1) : out[(w + 1) * k] = " AND "

\* C9: for rows of 3 cells each, both compilers return the conditions
\* 'field operator value' in the order of the rows, joined by ' AND ', the
\* cells verbatim; gads_filters_to_gaql_string prefixes each with 'metrics.'.
C9_ConditionsJoinedInOrder ==
    AllThreeCells(config_filters) =>
        /\ sql_string # Unset => JoinedInOrder(sql_string, config_filters, <<>>)
        /\ gaql_string # Unset =>
               JoinedInOrder(gaql_string, config_filters, <<"metrics.">>)

\* Both compilers have compiled two different rows of 3 cells.
C9_Witness ==
    /\ Len(config_filters) = 2
    /\ AllThreeCells(config_filters)
    /\ config_filters[1] # config_filters[2]
    /\ sql_string # Unset
    /\ gaql_string # Unset

\* C10: youtube_filters_to_sql_string returns the empty string when no row
\* has exactly 3 cells (the empty list included), and in general the
\* compilation of the rows of 3 cells alone, in their order.
C10_MalformedRowsSkipped ==
    sql_string # Unset =>
        /\ (\A k \in 1..Len(config_filters) : Len(config_filters[k]) # 3)
               => sql_string = <<>>
        /\ sql_string
           = youtube_filters_to_sql_string(SelectSeq(config_filters, HasThreeCells))
        /\ JoinedInOrder(sql_string, SelectSeq(config_filters, HasThreeCells),
                         <<>>)

\* A list with a row of more than 3 cells before a row of 3 cells has been
\* compiled to the condition of the latter alone.
C10_Witness ==
    /\ Len(config_filters) = 2
    /\ Len(config_filters[1]) > 3
    /\ Len(config_filters[2]) = 3
    /\ sql_string = SqlCondition(config_filters[2])

\* C11: gads_filters_to_gaql_string never raises on a row whose length is not
\* 3: such a row contributes no condition, and the result is the compilation
\* of the rows of 3 cells alone, in their order.
C11_GaqlMalformedRowsSkipped ==
    gaql_string # Unset =>
        /\ gaql_string # IndexError
        /\ gaql_string
           = Join(GaqlConditions(SelectSeq(config_filters, HasThreeCells)))

(***************************************************************************)
(* Properties of split_list_to_chunks                                      *)
(***************************************************************************)
RECURSIVE Concat(_)
Concat(seqs) == IF seqs = <<>> THEN <<>> ELSE Head(seqs) \o Concat(Tail(seqs))

ChunkLens == {Len(chunks.value[k]) : k \in DOMAIN chunks.value}
Ceil(a, b) == IF a % b = 0 THEN a \div b ELSE a \div b + 1

\* C12: for a non-empty list and a chunk size of at least 1,
\* split_list_to_chunks returns chunks of 1 to max_size_of_chunk elements
\* each, whose concatenation in order is the list: chunk k is the slice of the
\* list that starts where chunk k - 1 ended.
C12_ChunksPartitionTheList ==
    (chunks # NotCalled /\ Len(lst) > 0) =>
        /\ chunks.status = "returned"
        /\ \A k \in DOMAIN chunks.value :
               /\ Len(chunks.value[k]) >= 1
               /\ Len(chunks.value[k]) <= max_size_of_chunk
               /\ chunks.value[k]
                  = SubSeq(lst, Len(Concat(SubSeq(chunks.value, 1, k - 1))) + 1,
                           Len(Concat(SubSeq(chunks.value, 1, k))))
        /\ Concat(chunks.value) = lst

\* A list of two different ids and more has been split into chunks of
\* different sizes.
C12_Witness ==
    /\ chunks.status = "returned"
    /\ Len(lst) >= 5
    /\ \E i, j \in DOMAIN lst : lst[i] # lst[j]
    /\ Cardinality(ChunkLens) = 2

\* C13 as stated, for a non-empty list: ceil(len / size) chunks; each of
\* exactly `size` elements when len is a multiple of size, and otherwise
\* balanced and each strictly smaller than size.
C13_EveryChunkSmallerThanMax ==
    (chunks # NotCalled /\ Len(lst) > 0) =>
        /\ chunks.status = "returned"
        /\ Len(chunks.value) = Ceil(Len(lst), max_size_of_chunk)
        /\ IF Len(lst) % max_size_of_chunk = 0
           THEN \A k \in DOMAIN chunks.value :
                    Len(chunks.value[k]) = max_size_of_chunk
           ELSE /\ \A a, b \in ChunkLens : a - b <= 1
                /\ \A k \in DOMAIN chunks.value :
                       Len(chunks.value[k]) < max_size_of_chunk

\* C13, amended: for a non-empty list, ceil(len / size) chunks; each of
\* exactly `size` elements when len is a multiple of size, and otherwise
\* balanced, the larger chunks first, each of at most `size` elements and the
\* last one strictly smaller than size.
C13_BalancedChunks ==
    (chunks # NotCalled /\ Len(lst) > 0) =>
        /\ chunks.status = "returned"
        /\ Len(chunks.value) = Ceil(Len(lst), max_size_of_chunk)
        /\ IF Len(lst) % max_size_of_chunk = 0
           THEN \A k \in DOMAIN chunks.value :
                    Len(chunks.value[k]) = max_size_of_chunk
           ELSE /\ \A a, b \in ChunkLens : a - b <= 1
                /\ \A j, k \in DOMAIN chunks.value :
                       j < k => Len(chunks.value[j]) >= Len(chunks.value[k])
                /\ \A k \in DOMAIN chunks.value :
                       Len(chunks.value[k]) <= max_size_of_chunk
                /\ Len(chunks.value[Len(chunks.value)]) < max_size_of_chunk

\* A list of 5 elements has been split with a maximum of 3: the first chunk
\* holds 3 elements, the second 2.
C13_Witness ==
    /\ chunks.status = "returned"
    /\ Len(lst) = 5 /\ max_size_of_chunk = 3
    /\ Len(chunks.value) = 2
    /\ Len(chunks.value[1]) = 3 /\ Len(chunks.value[2]) = 2

(***************************************************************************)
(* Properties of the report query                                          *)
(***************************************************************************)
\* The calendar.
IsLeapYear(y) == (y % 4 = 0 /\ y % 100 # 0) \/ y % 400 = 0
LastDayOf(y, m) ==
    CASE m \in {1, 3, 5, 7, 8, 10, 12} -> 31
      [] m \in {4, 6, 9, 11} -> 30
      [] m = 2 -> IF IsLeapYear(y) THEN 29 ELSE 28
IsDate(date) ==
    /\ date.month \in 1..12
    /\ date.day \in 1..LastDayOf(date.year, date.month)
\* The days from 2000-01-01 to the date, counted year by year and month by
\* month.
RECURSIVE DaysOfYears(_, _)
DaysOfYears(from, to) ==
    IF from > to THEN 0
    ELSE (IF IsLeapYear(to) THEN 366 ELSE 365) + DaysOfYears(from, to - 1)
RECURSIVE DaysOfMonths(_, _)
DaysOfMonths(y, m) ==
    IF m = 0 THEN 0 ELSE LastDayOf(y, m) + DaysOfMonths(y, m - 1)
DaysSince2000(date) ==
    DaysOfYears(2000, date.year - 1) + DaysOfMonths(date.year, date.month - 1)
    + date.day - 1

\* Reading a string of the form YYYY-MM-DD.
IsYYYYMMDD(chars) ==
    /\ Len(chars) = 10
    /\ chars[5] = "-" /\ chars[8] = "-"
    /\ \A k \in {1, 2, 3, 4, 6, 7, 9, 10} : IsDigit(chars[k])
ParseDate(chars) ==
    Date(Number(SubSeq(chars, 1, 4)), Number(SubSeq(chars, 6, 7)),
         Number(SubSeq(chars, 9, 10)))
\* a <= b as strings of the form YYYY-MM-DD.
RECURSIVE StringLeq(_, _)
StringLeq(a, b) ==
    IF a = <<>> THEN TRUE
    ELSE IF Head(a) = Head(b) THEN StringLeq(Tail(a), Tail(b))
    ELSE Head(a) # "-" /\ Head(b) # "-"
         /\ DigitValue(Head(a)) < DigitValue(Head(b))

\* C16: get_query_dates returns (date_from, date_to), both of the form
\* YYYY-MM-DD, date_to today and date_from lookback_days calendar days before
\* today, so date_from <= date_to as strings; 90 days before 2022-07-01 is
\* 2022-04-02.
C16_QueryDates ==
    query_dates # NotCalled =>
        /\ query_dates.status = "returned"
        /\ IsYYYYMMDD(query_dates.value[1])
        /\ IsYYYYMMDD(query_dates.value[2])
        /\ ParseDate(query_dates.value[2]) = today
        /\ IsDate(ParseDate(query_dates.value[1]))
        /\ DaysSince2000(today)
           - DaysSince2000(ParseDate(query_dates.value[1])) = lookback_days
        /\ StringLeq(query_dates.value[1], query_dates.value[2])
        /\ (today = Date(2022, 7, 1) /\ lookback_days = 90)
           => query_dates.value
              = << <<"2", "0", "2", "2", "-", "0", "4", "-", "0", "2">>,
                   <<"2", "0", "2", "2", "-", "0", "7", "-", "0", "1">> >>

\* The dates of a window that reaches back over 29 February into the year
\* before have been computed.
C16_Witness ==
    /\ query_dates.status = "returned"
    /\ today = Date(2024, 3, 1)
    /\ lookback_days = 61
    /\ ParseDate(query_dates.value[1]) = Date(2023, 12, 31)

IsInfix(a, b) == \E k \in 1..(Len(b) - Len(a) + 1) : SubSeq(b, k, k + Len(a) - 1) = a

\* C17: the query does not end with a dangling AND when gads_filters is None
\* or the empty string; a predicate that is not empty is in the query, AND-ed
\* after the date window.
C17_NoDanglingAnd ==
    query # NotCalled =>
        /\ query.status = "returned"
        /\ (gads_filters = None \/ gads_filters = Some(<<>>))
           => ~EndsWithAnd(query.value)
        /\ (gads_filters # None /\ gads_filters # Some(<<>>))
           => IsInfix(<<"\"", "\n", "AND", " ">> \o gads_filters[1],
                      query.value)

\* The same, for the predicates other than the empty string.
C17_NoDanglingAnd_UnlessEmptyString ==
    (query # NotCalled /\ gads_filters # Some(<<>>)) => C17_NoDanglingAnd

(***************************************************************************)
(* Properties of the enrichment stage                                      *)
(***************************************************************************)
\* The chunks the lookup API was called with, in the order of the calls.
LookedUp == [k \in DOMAIN enrich.lookups |-> enrich.lookups[k].id]
\* This step is a lookup.
IsLookup == enrich.pc = "lookup" /\ Len(enrich'.lookups) = Len(enrich.lookups) + 1

\* C14: the lookup API is called once per chunk, in the order of the chunks:
\* the calls so far are the first chunks, and all of them once the loop has
\* ended; a page with totalResults = 0 writes no record and raises no error,
\* the invocation goes on with the next chunk, or with publishing after the
\* last one; an invocation that has ended has published its message to the
\* Excluder.
C14_OneLookupPerChunk ==
    /\ [](/\ LookedUp = SubSeq(enrich.chunks, 1, Len(enrich.lookups))
          /\ enrich.pc = "lookup" => enrich.i = Len(enrich.lookups) + 1
          /\ enrich.pc \in {"publish", "done"}
             => LookedUp = enrich.chunks
          /\ enrich.pc = "done"
             => \E k \in PublishedTo("excluder") :
                    published[k].message = ExcluderMessage(enrich.customer_id))
    /\ [][(IsLookup /\ enrich'.response.pageInfo.totalResults = 0)
          => /\ youtube' = youtube
             /\ enrich'.error = ""
             /\ enrich'.i = enrich.i + 1
             /\ enrich'.pc = IF enrich.i < Len(enrich.chunks)
                             THEN "lookup" ELSE "publish"]_vars

\* An invocation with three chunks has published its message: the page of
\* the first chunk had no results, the page of the second had.
C14_Witness ==
    /\ enrich.pc = "done"
    /\ Len(enrich.chunks) = 3
    /\ enrich.lookups[1].totalResults = 0
    /\ enrich.lookups[2].totalResults > 0
    /\ \E row \in youtube : row.channel_id \in Range(enrich.chunks[2])

\* C15: when a page has items, the step raises no error and the metadata
\* holds a record for every item of the page, also for an item that lacks
\* viewCount, subscriberCount, videoCount, title or country: an absent number
\* is null in the record, an absent text is the empty string.
C15_IncompleteItemStillRecorded ==
    [][(IsLookup /\ enrich'.response.pageInfo.totalResults > 0)
       => /\ enrich'.error = ""
          /\ \A k \in DOMAIN enrich'.response.items :
                LET item == enrich'.response.items[k]
                IN  \E row \in youtube' :
                       /\ row.channel_id = item.id
                       /\ "title" \notin DOMAIN item.snippet => row.title = <<>>
                       /\ "country" \notin DOMAIN item.snippet
                          => row.country = <<>>
                       /\ "viewCount" \notin DOMAIN item.statistics
                          => row.view_count = None
                       /\ "subscriberCount" \notin DOMAIN item.statistics
                          => row.subscriber_count = None
                       /\ "videoCount" \notin DOMAIN item.statistics
                          => row.video_count = None]_vars

\* The same, for the pages whose items all have their three numbers.
C15_RecordedWhenNumbersPresent ==
    [][(/\ IsLookup
        /\ enrich'.response.pageInfo.totalResults > 0
        /\ \A k \in DOMAIN enrich'.response.items :
               DOMAIN enrich'.response.items[k].statistics = DOMAIN Statistics)
       => /\ enrich'.error = ""
          /\ \A k \in DOMAIN enrich'.response.items :
                LET item == enrich'.response.items[k]
                IN  \E row \in youtube' :
                       /\ row.channel_id = item.id
                       /\ "title" \notin DOMAIN item.snippet => row.title = <<>>
                       /\ "country" \notin DOMAIN item.snippet
                          => row.country = <<>>]_vars

(***************************************************************************)
(* Properties of the account stage and of the messages                     *)
(***************************************************************************)
IsReportMessage(m) == m.topic = "report"
\* The customer_ids of the messages published to the report stage, in order.
ReportCustomers ==
    LET messages == SelectSeq(published, IsReportMessage)
    IN  [k \in DOMAIN messages |-> messages[k].message.customer_id]
\* The customer_ids of the rows with status 'Enabled', in the order of the sheet.
IsEnabledRow(row) == Len(row) = 2 /\ row[2] = "Enabled"
EnabledCustomers ==
    LET rows == SelectSeq(accounts.customer_ids, IsEnabledRow)
    IN  [k \in DOMAIN rows |-> Str(rows[k][1])]

\* The ranges read from the sheet are well-formed: every account row has its
\* two cells, every filter row its three, and the lookback is an integer.
WellFormedSheet ==
    /\ \A k \in DOMAIN accounts.customer_ids : Len(accounts.customer_ids[k]) = 2
    /\ \A k \in DOMAIN accounts.filter_rows : Len(accounts.filter_rows[k]) >= 3
    /\ IsInteger(accounts.lookback)

\* C18: a run of the account stage over a well-formed sheet completes; a run
\* that completes has published exactly one message per row whose status is
\* 'Enabled', in the order of the sheet, and none for another row; a run that
\* did not complete has published nothing.
C18_OneMessagePerEnabledRow ==
    /\ (accounts.status \notin {"idle", "rejected"} /\ WellFormedSheet)
       => accounts.status = "done"
    /\ accounts.status = "done" => ReportCustomers = EnabledCustomers
    /\ accounts.status # "done" => ReportCustomers = <<>>

\* A sheet with a disabled account before an enabled one has given one
\* message, for the enabled account.
C18_Witness ==
    /\ accounts.status = "done"
    /\ Len(accounts.customer_ids) = 2
    /\ accounts.customer_ids[1][2] = "Disabled"
    /\ accounts.customer_ids[2][2] = "Enabled"
    /\ Len(ReportCustomers) = 1

\* C19: with filters and a lookback that are well-formed, a run of the
\* account stage completes whatever the account rows are, and publishes the
\* messages of the enabled accounts: a malformed account row is dropped.
C19_MalformedAccountRowDropped ==
    (/\ accounts.status \notin {"idle", "rejected"}
     /\ \A k \in DOMAIN accounts.filter_rows : Len(accounts.filter_rows[k]) >= 3
     /\ IsInteger(accounts.lookback))
    => /\ accounts.status = "done"
       /\ ReportCustomers = EnabledCustomers

\* The schema of the stage that consumes the messages of a topic.
SchemaOf(topic) ==
    CASE topic = "report" -> report_message_schema
      [] topic = "youtube" -> youtube_message_schema
      [] topic = "excluder" -> excluder_message_schema

\* C20: every message published carries a string customer_id and a string
\* sheet_id and is valid for the schema of the stage that consumes it.
C20_MessagesCarryCustomerAndSheet ==
    \A k \in DOMAIN published :
        LET message == published[k].message
        IN  /\ "customer_id" \in DOMAIN message
            /\ message.customer_id[1] = "string"
            /\ "sheet_id" \in DOMAIN message
            /\ message.sheet_id[1] = "string"
            /\ IsValid(message, SchemaOf(published[k].topic))

\* What holds instead: a message of the account stage has no sheet_id, the
\* report stage passes null on, and the enrichment stage rejects every
\* message that comes from the report stage.
C20_EnrichRejectsEveryMessage ==
    /\ \A k \in PublishedTo("report") : "sheet_id" \notin DOMAIN published[k].message
    /\ \A k \in PublishedTo("youtube") : published[k].message.sheet_id = Null
    /\ \A d \in delivered :
           published[d[1]].topic = "youtube" => d[2] = "ValidationError"

\* The record of the metadata made from an item, with the three numbers.
RecordOf(item, view, subscriber, video) ==
    [channel_id |-> item.id,
     view_count |-> Number(item.statistics[view]),
     subscriber_count |-> Number(item.statistics[subscriber]),
     video_count |-> Number(item.statistics[video]),
     title |-> SanitiseTitle(Get(item.snippet, "title", <<>>)),
     country |-> Get(item.snippet, "country", <<>>)]
\* This step has written the records of the page it looked up.
WritesPage == IsLookup /\ enrich'.error = "" /\ "items" \in DOMAIN enrich'.response
\* The columns of a record that come from the item.
ItemColumns(row) ==
    [column \in {"channel_id", "view_count", "subscriber_count", "video_count",
                 "title", "country"} |-> row[column]]

\* C30: every record written holds the fields of its item under the
\* like-named columns: view_count is viewCount, subscriber_count is
\* subscriberCount, video_count is videoCount, channel_id is id, title is the
\* (sanitised) title and country is country.
C30_FieldsUnderLikeNamedColumns ==
    [][WritesPage
       => \A k \in DOMAIN enrich'.response.items :
              \E row \in youtube' :
                  ItemColumns(row) =
                      RecordOf(enrich'.response.items[k],
                               "viewCount", "subscriberCount", "videoCount")]_vars

\* What holds instead: subscriber_count holds videoCount and video_count
\* holds subscriberCount.
C30_CountsSwapped ==
    [][WritesPage
       => \A k \in DOMAIN enrich'.response.items :
              \E row \in youtube' :
                  ItemColumns(row) =
                      RecordOf(enrich'.response.items[k],
                               "viewCount", "videoCount", "subscriberCount")]_vars

(***************************************************************************)
(* Properties of the exclusion history                                     *)
(***************************************************************************)
\* C24: the exclusion history is append-only: in every step, of any
\* invocation, every blob of the history stays in it with the content it
\* had, and a step that writes to the history adds exactly one blob, under a
\* name no blob had.
C24_HistoryAppendOnly ==
    [][/\ \A n \in DOMAIN exclusion :
              n \in DOMAIN exclusion' /\ exclusion'[n] = exclusion[n]
       /\ exclusion' # exclusion
          => Cardinality(DOMAIN exclusion' \ DOMAIN exclusion) = 1]_vars

\* Two invocations for the same customer have both written to the history:
\* the history holds the two blobs.
C24_Witness ==
    /\ \A i \in Inv : Wrote(i) /\ inv[i].customer_id = "1"
    /\ Cardinality(DOMAIN exclusion) = MaxInv

(***************************************************************************)
(* Properties of the entry points                                          *)
(***************************************************************************)
\* run of the account stage has been called.
AccountsRan == accounts.status \in {"done", "failed"}

\* C23: the HTTP entry point of the account stage answers a request without
\* a string sheet_id with status 400, and run is not called: nothing is read
\* and nothing published; a valid request calls run and is answered with
\* status 200.
C23_BadRequest400ValidRequest200 ==
    /\ accounts.status = "rejected"
       => /\ accounts.response = 400
          /\ accounts.customer_ids = <<>>
          /\ published = <<>>
    /\ AccountsRan => accounts.response = 200

\* What holds instead: a valid request is answered with 200 when run
\* returns, and run raises only over a sheet that is not well-formed.
C23_Status200WhenRunReturns ==
    /\ accounts.status = "rejected"
       => /\ accounts.response = 400
          /\ accounts.customer_ids = <<>>
          /\ published = <<>>
    /\ accounts.status = "done" => accounts.response = 200
    /\ accounts.status = "failed" => ~WellFormedSheet /\ accounts.response = 500

\* The payload holds every required field of the schema with its type.
HasRequiredFields(payload, schema) ==
    \A key \in schema.required :
        key \in DOMAIN payload /\ payload[key][1] = schema.properties[key]
\* And every other field that the schema declares and the payload holds has
\* its declared type.
HasDeclaredTypes(payload, schema) ==
    \A key \in DOMAIN payload :
        key \in DOMAIN schema.properties
        => payload[key][1] = schema.properties[key]
\* Message k was rejected by the entry point of its stage.
Rejected(k) == <<k, "ValidationError">> \in delivered
\* This step is the delivery of message k, which the entry point rejects.
IsRejection(k) == ~Delivered(k) /\ Rejected(k)'
\* No query result, write, mutation or message, and no job started.
NoEffect ==
    UNCHANGED <<report, youtube, exclusion, gads, published, uuids, inv, enrich>>

\* C22: an event entry point (report, enrichment, Excluder) starts its job
\* exactly for the payloads that hold every required field with the required
\* type; for the others it raises a validation error, and nothing is
\* queried, written, mutated or published.
C22_JobStartsIffRequiredFields ==
    /\ [](\A d \in delivered :
             d[2] # "ValidationError"
             <=> HasRequiredFields(published[d[1]].message,
                                   SchemaOf(published[d[1]].topic)))
    /\ [][\A k \in DOMAIN published : IsRejection(k) => NoEffect]_vars

\* C22 as amended: exactly for the payloads that hold every required field
\* and in which every field that the schema declares has the declared type.
C22_JobStartsIffPayloadValid ==
    /\ [](\A d \in delivered :
             d[2] # "ValidationError"
             <=> /\ HasRequiredFields(published[d[1]].message,
                                      SchemaOf(published[d[1]].topic))
                 /\ HasDeclaredTypes(published[d[1]].message,
                                     SchemaOf(published[d[1]].topic)))
    /\ [][\A k \in DOMAIN published : IsRejection(k) => NoEffect]_vars

\* The report stage has rejected a payload that holds its three required
\* fields with their types, and a sheet_id that is no string.
C22_Witness ==
    \E k \in PublishedTo("report") :
        /\ Rejected(k)
        /\ HasRequiredFields(published[k].message, report_message_schema)
        /\ ~HasDeclaredTypes(published[k].message, report_message_schema)

(***************************************************************************)
(* Properties of the pipeline from end to end                              *)
(***************************************************************************)
\* run of the Excluder has been invoked for customer c.
ExcluderInvoked(c) == \E i \in Inv : inv[i].pc # "idle" /\ inv[i].customer_id = c
\* An external call of the report stage or of the enrichment stage failed.
ExternalCallFailed ==
    \/ enrich.error # ""
    \/ \E d \in delivered : d[2] \in {"GoogleAdsException", "GenericGBQException"}

\* C21: when a run of the account stage has completed, then for every
\* account that is enabled in the sheet the run of the Excluder is eventually
\* invoked for its customer_id, unless an external call fails: the message of
\* each stage is accepted by the next one.
C21_EnabledAccountReachesExcluder ==
    \A c \in Customers :
        (accounts.status = "done" /\ Str(c) \in Range(EnabledCustomers))
        ~> (ExcluderInvoked(c) \/ ExternalCallFailed)

\* What holds instead: the Excluder is never invoked for a customer whose
\* message comes from the account stage; only a message that another
\* publisher sent with a sheet_id gets there.
C21_OnlyForeignMessagesReachExcluder ==
    \A i \in Inv :
        inv[i].pc # "idle"
        => /\ published # <<>>
           /\ "sheet_id" \in DOMAIN published[1].message
           /\ published[1].message.customer_id = Str(inv[i].customer_id)

\* C25: an Excluder invocation for a customer_id that is no integer is
\* rejected before anything is done with the customer_id: the reconciliation
\* query is not run, no mutate request is sent and nothing is appended to the
\* history.
C25_NonIntegerCustomerRejected ==
    \A i \in Inv :
        (inv[i].pc # "idle" /\ ~IsIntegerLiteral(inv[i].customer_id))
        => /\ inv[i].pc \notin {"exclude", "write", "done"}
           /\ ~inv[i].nothing_to_update
           /\ ~Requested(i)
           /\ ~Wrote(i)

\* What holds instead: nothing is appended to the history for such a
\* customer_id.
C25_NonIntegerCustomerNotRecorded ==
    \A i \in Inv :
        (inv[i].pc # "idle" /\ ~IsIntegerLiteral(inv[i].customer_id))
        => ~Wrote(i)

\* The exclusions of invocation i were committed on the ad platform: its
\* mutate request was accepted and was not a validate-only request.
Committed(i) == \E r \in gads : r.inv = i /\ r.ok /\ ~r.validate_only

\* C29: in every mode of the Excluder, an invocation that has appended a
\* record to the history has had its exclusions committed on the ad platform.
C29_RecordedOnlyIfCommitted ==
    \A i \in Inv : Wrote(i) => Committed(i)

\* What holds instead: the same, when APE_EXCLUSION_VALIDATE_ONLY is false.
C29_RecordedOnlyIfCommitted_UnlessValidateOnly ==
    ~VALIDATE_ONLY => C29_RecordedOnlyIfCommitted

(***************************************************************************)
(* Properties of the join of the reconciliation query                      *)
(***************************************************************************)
\* The columns of a row of youtube_channel.
MetadataColumns ==
    {"channel_id", "view_count", "video_count", "subscriber_count", "title",
     "title_language", "title_language_confidence", "country",
     "datetime_updated"}
\* The rows the FROM clause of the reconciliation query joins to a row of the
\* report.
EnrichedRows(a) == {j \in Joined(report, youtube, exclusion) : j.Ads = a}
HasMetadata(channel_id) == \E y \in youtube : y.channel_id = channel_id
\* The lookup API was asked for the channel and answered with no result.
LookedUpInVain(channel_id) ==
    \E n \in DOMAIN enrich.lookups :
        /\ enrich.lookups[n].totalResults = 0
        /\ channel_id \in Range(enrich.lookups[n].id)

\* C26: every row of the report is in the join of the reconciliation query,
\* and a row whose channel has no metadata is joined to NULL in every
\* metadata column instead of being left out.
C26_EnrichmentIsLeftOuterJoin ==
    \A a \in AdsRows(report) :
        /\ EnrichedRows(a) # {}
        /\ ~HasMetadata(a.channel_id)
           => \A j \in EnrichedRows(a), name \in MetadataColumns :
                  Column(j.Yt, name) = None
        /\ HasMetadata(a.channel_id)
           => \A j \in EnrichedRows(a) :
                  /\ j.Yt # None
                  /\ j.Yt[1] \in youtube
                  /\ j.Yt[1].channel_id = a.channel_id

\* The lookup of a reported channel returned no result, the enrichment has
\* ended and an Excluder invocation has run its query over the tables.
C26_Witness ==
    /\ enrich.pc = "done"
    /\ \E a \in AdsRows(report) :
           /\ LookedUpInVain(a.channel_id)
           /\ ~HasMetadata(a.channel_id)
           /\ \E i \in Inv : /\ inv[i].customer_id = a.customer_id
                             /\ inv[i].pc = "done"

(***************************************************************************)
(* Properties of the messages the stages publish                           *)
(***************************************************************************)
\* The step appends exactly one message, on that topic and for that
\* customer_id (a JSON value), to the messages published.
PublishesOne(topic, customer_id) ==
    /\ Len(published') = Len(published) + 1
    /\ SubSeq(published', 1, Len(published)) = published
    /\ published'[Len(published')].topic = topic
    /\ published'[Len(published')].message.customer_id = customer_id
\* The deliveries to the report stage that end in the step.
ReportDeliveries ==
    {d \in delivered' \ delivered : published[d[1]].topic = "report"}
\* The rows of every chunk that was looked up are in the metadata.
ChunksWritten ==
    /\ Len(enrich.lookups) = Len(enrich.chunks)
    /\ \A n \in DOMAIN enrich.lookups :
           /\ enrich.lookups[n].id = enrich.chunks[n]
           /\ (enrich.lookups[n].totalResults > 0
               => \A id \in Range(enrich.lookups[n].id) : HasMetadata(id))
\* The messages of a topic that a stage of the pipeline published: a message
\* that was there from the start came from elsewhere.
PublishedByStage(topic) ==
    {k \in PublishedTo(topic) : k > 1 \/ topic = "report"}
SuccessfulReports ==
    {d \in delivered : published[d[1]].topic = "report" /\ d[2] = "done"}

\* C27: a delivery to the report stage that succeeds publishes exactly one
\* message for the enrichment stage, in the step that writes the report, and
\* one that fails publishes none; the enrichment stage publishes exactly one
\* message for the Excluder, when every chunk has been looked up and written
\* or when there was nothing to look up, and none in any other step, so none
\* after a call that raised; no step of the Excluder publishes.
C27_OneMessagePerSuccessfulInvocation ==
    /\ [](/\ enrich.pc \in {"publish", "done"} => ChunksWritten
          /\ Cardinality(PublishedByStage("youtube"))
                 = Cardinality(SuccessfulReports))
    /\ [][/\ \A d \in ReportDeliveries :
                IF d[2] = "done"
                THEN /\ PublishesOne("youtube",
                                     published[d[1]].message.customer_id)
                     /\ \E S \in SUBSET ChannelNumbers :
                            report' =
                                [report EXCEPT
                                    ![published[d[1]].message.customer_id[2]] = S]
                ELSE UNCHANGED <<published, report>>
          /\ enrich' # enrich
             => IF enrich.pc = "publish"
                THEN /\ PublishesOne("excluder", Str(enrich.customer_id))
                     /\ enrich'.pc = "done"
                     /\ UNCHANGED youtube
                ELSE /\ UNCHANGED published
                     /\ enrich'.pc # "done"
                     /\ (enrich.pc = "failed" => enrich'.pc = "placements")
          /\ inv' # inv => UNCHANGED published
          /\ published' # published
             => \/ accounts' # accounts
                \/ \E d \in ReportDeliveries : d[2] = "done"
                \/ enrich.pc = "publish" /\ enrich'.pc = "done"
         ]_vars

\* The report stage succeeded, the enrichment stage looked up a chunk, wrote
\* it and published, and the Excluder ran on that message and ended.
C27_Witness ==
    /\ SuccessfulReports # {}
    /\ enrich.pc = "done"
    /\ \E n \in DOMAIN enrich.lookups : enrich.lookups[n].totalResults > 0
    /\ \E k \in PublishedByStage("excluder") :
           /\ <<k, "run">> \in delivered
           /\ published[k].message.customer_id = Str(enrich.customer_id)
    /\ \E i \in Inv : inv[i].pc = "done" /\ inv[i].customer_id = enrich.customer_id

(***************************************************************************)
(* Properties of a second invocation of the enrichment stage               *)
(***************************************************************************)
\* run has been called for two deliveries: the second invocation has begun.
EnrichRuns == {d \in delivered : published[d[1]].topic = "youtube" /\ d[2] = "run"}
SecondRun == Cardinality(EnrichRuns) = 2
\* An invocation has completed: its message for the Excluder is published.
Completed == Cardinality(PublishedTo("excluder"))
\* The second invocation runs after the first one has completed.
SecondRunAfterCompletedRun ==
    /\ SecondRun
    /\ \/ Completed = 2
       \/ Completed = 1 /\ enrich.pc # "done"

\* C28: a second invocation of the enrichment stage, for the same customer
\* and the same report and after the first one has completed, issues no
\* lookup call, whatever the lookups of the first invocation returned.
C28_SecondRunLooksNothingUp ==
    SecondRunAfterCompletedRun
    => /\ enrich.pc # "lookup"
       /\ enrich.lookups = <<>>

\* Every channel of the report has a row in the metadata.
EveryChannelHasMetadata == \A a \in AdsRows(report) : HasMetadata(a.channel_id)

\* When the first invocation wrote metadata for every channel of the report,
\* the second one finds nothing to look up: it goes from its query to the
\* publication without a lookup call, and the metadata stay as they are.
C28_SecondRunIdleWhenEveryChannelHasMetadata ==
    [][SecondRunAfterCompletedRun /\ EveryChannelHasMetadata
       /\ enrich.pc = "placements"
       => /\ enrich'.pc = "publish"
          /\ enrich'.lookups = <<>>
          /\ UNCHANGED youtube]_vars

====
